---- MODULE Spec2Model ----
(***************************************************************************)
(* Model of the reference-resolution engine of wappler-cleanup-tool        *)
(* (src/lib/scanner.js): discovery of server actions, extraction of        *)
(* references from markup, structured and script files, path               *)
(* normalisation, and classification.                                      *)
(*                                                                         *)
(* Paths and file contents are TLA+ strings handled character by           *)
(* character (Len, SubSeq and \o apply to strings in TLC), so that         *)
(* startsWith / endsWith / replace and the regular expressions are         *)
(* computed as the JavaScript computes them.                               *)
(***************************************************************************)
EXTENDS Integers, Sequences, FiniteSets, TLC

VARIABLES
    fs,             \* the project tree: sequence of files in enumeration order
    dirs,           \* the directories of the project tree (paths)
    pc,             \* control position inside Scanner.scan()
    queue,          \* files the current loop has still to process (glob result)
    serverActions,  \* Scanner.serverActions: a Map, kept in insertion order
    references,     \* Scanner.references: Map normalizedPath -> list
    results,        \* value returned by the last completed scan()
    emptyFolders,   \* results.emptyFolders: list of the folders found empty
    scans,          \* number of scan() calls started on this Scanner
    folderOp,       \* EmptyFolderDetector.deleteEmptyFolders in progress
    selectedForDeletion, \* InteractiveMode.selectedForDeletion, in insertion order
    deleteOp,       \* InteractiveMode.executeDelete in progress
    locked,         \* the paths whose removal the file system refuses
    options,        \* the command line options handed to InteractiveMode
    routesScanner,  \* the RoutesScanner of the dead-routes menu
    routeSelection, \* RoutesKeyboardNavigation.selectedForDeletion
    answer,         \* the answer to the last confirmation prompt
    ignoreList,     \* IgnoreList.ignoreList: the ignored keys in memory
    ignoreFile,     \* ignore-list.json as it is on disk
    inFlight,       \* the loads and saves of the ignore list not yet completed
    stdin,          \* process.stdin: keypress listeners and raw mode
    nav,            \* the KeyboardNavigation of the Actions menu
    ignoredRoutes   \* RoutesIgnoreList.ignoredRoutes

vars == <<fs, dirs, pc, queue, serverActions, references, results,
          emptyFolders, scans, folderOp, selectedForDeletion, deleteOp,
          locked, options, routesScanner, routeSelection, answer,
          ignoreList, ignoreFile, inFlight, stdin, nav, ignoredRoutes>>

\* what is on disk
disk == <<fs, dirs>>
\* the state of the interactive session
\* the ignore lists and the keyboard navigation
actionsMenu == <<ignoreList, ignoreFile, inFlight, stdin, nav>>
keyboard == <<actionsMenu, ignoredRoutes>>
session == <<folderOp, selectedForDeletion, deleteOp, locked, options,
             routesScanner, routeSelection, answer, keyboard>>
\* the dead-routes menu
routing == <<routesScanner, routeSelection>>
\* the session besides the folder operation
marking == <<selectedForDeletion, deleteOp, locked, options, routing, keyboard>>
\* the answers of a confirmation prompt
Answers == {"yes", "no"}

\* the deletion goes on whatever was answered
ConfirmedAlways(confirm) == TRUE

\* if (!confirm) return
Confirmed(confirm) == confirm = "yes"

(***************************************************************************)
(* Bounds of the model.                                                    *)
(***************************************************************************)
MaxFiles == 3
MaxScans == 2
\* scans one RoutesScanner runs at most
MaxRouteScans == 2

(***************************************************************************)
(* JavaScript string primitives.                                           *)
(***************************************************************************)
Min(S) == CHOOSE x \in S : \A y \in S : x <= y
Max(S) == CHOOSE x \in S : \A y \in S : x >= y

\* F applied to the value of e, e being evaluated once: TLC hands operator
\* arguments and LET definitions over unevaluated, so a result that is used
\* several times (a const of the JavaScript) is bound through Let
Let(e, F(_)) == CHOOSE r \in {F(x) : x \in {e}} : TRUE

\* for (const x of xs) { ... }: the sequences G(x) yields, concatenated
FlatMap(xs, G(_)) ==
    Let(xs, LAMBDA v :
        LET F[k \in 0..Len(v)] == IF k = 0 THEN <<>> ELSE F[k - 1] \o G(v[k])
        IN  F[Len(v)])

\* s[i] as a one-character string ("" outside the string)
Ch(s, i) == IF i >= 1 /\ i <= Len(s) THEN SubSeq(s, i, i) ELSE ""

\* s.substring(i-1, j): 1-based and inclusive, the indices clamped to the
\* string as substring clamps them ("" when nothing is left)
Sub(s, i, j) ==
    LET a == IF i < 1 THEN 1 ELSE i
        b == IF j > Len(s) THEN Len(s) ELSE j
    IN  IF b < a THEN "" ELSE SubSeq(s, a, b)

\* String.prototype.startsWith
StartsWith(s, p) == Len(s) >= Len(p) /\ Sub(s, 1, Len(p)) = p

\* String.prototype.endsWith
EndsWith(s, p) == Len(s) >= Len(p) /\ Sub(s, Len(s) - Len(p) + 1, Len(s)) = p

\* String.prototype.indexOf, 1-based; 0 when p does not occur
IndexOf(s, p) ==
    LET at == {i \in 1..(Len(s) - Len(p) + 1) : Sub(s, i, i + Len(p) - 1) = p}
    IN  IF at = {} THEN 0 ELSE Min(at)

\* String.prototype.includes
Includes(s, p) == IndexOf(s, p) # 0

\* String.prototype.replace(p, r) with a string pattern: the FIRST occurrence only
ReplaceFirst(s, p, r) ==
    LET i == IndexOf(s, p)
    IN  IF i = 0 THEN s
        ELSE Sub(s, 1, i - 1) \o r \o Sub(s, i + Len(p), Len(s))

\* s.split(c)[0]
SplitFirst(s, c) ==
    LET i == IndexOf(s, c) IN IF i = 0 THEN s ELSE Sub(s, 1, i - 1)

(***************************************************************************)
(* Character classes of the regular expressions.  A TLA+ string literal    *)
(* cannot hold a backtick, so the character "~" stands for the backtick    *)
(* in every content string of this model.                                  *)
(***************************************************************************)
BT == "~"
WS == {" ", "\n", "\t"}                 \* \s
Q2 == {"'", "\""}                       \* ["']
Q3 == {"'", "\"", BT}                   \* ['"`]
ApiStop == {"'", "\"", "?", "&"} \cup WS \* complement of [^'"?\s&]

\* last index of the maximal run of characters outside Stop that starts at i
\* (i - 1 when the run is empty)
RunEnd(s, i, Stop) ==
    LET bad == {k \in i..Len(s) : Ch(s, k) \in Stop}
    IN  IF bad = {} THEN Len(s) ELSE Min(bad) - 1

\* first index >= i that is not white space (\s*)
SkipWs(s, i) ==
    LET non == {k \in i..Len(s) : Ch(s, k) \notin WS}
    IN  IF non = {} THEN Len(s) + 1 ELSE Min(non)

NoMatch == [ok |-> FALSE, end |-> 0, cap |-> ""]

\* /NAME=["']([^"']+)["']/ anchored at i   (NAME is url, action or href)
AttrAt(name, s, i) ==
    LET o == i + Len(name) + 1           \* the opening quote
        e == RunEnd(s, o + 1, Q2)        \* end of [^"']+
    IN  IF /\ Sub(s, i, o - 1) = name \o "="
           /\ Ch(s, o) \in Q2
           /\ e >= o + 1
           /\ Ch(s, e + 1) \in Q2
        THEN [ok |-> TRUE, end |-> e + 1, cap |-> Sub(s, o + 1, e)]
        ELSE NoMatch

\* /\/api\/[^'"?\s&]+/ anchored at i
ApiAt(s, i) ==
    LET e == RunEnd(s, i + 5, ApiStop)
    IN  IF Sub(s, i, i + 4) = "/api/" /\ e >= i + 5
        THEN [ok |-> TRUE, end |-> e, cap |-> Sub(s, i, e)]
        ELSE NoMatch

\* /['"`][^'"]*\/api\/[^'"?\s&]+[^'"]*['"`]/ anchored at i.
\* Everything between the opening quote and the closing one is outside ["'],
\* so the closing quote is the next ' or " if there is one, and otherwise
\* (backtracking) the last backtick; in between some /api/ must be followed
\* by at least one character of [^'"?\s&] before the closing quote.
TemplateAt(s, i) ==
    LET q  == RunEnd(s, i + 1, Q2) + 1
        bt == {k \in (i + 1)..Len(s) : Ch(s, k) = BT}
        c  == IF q <= Len(s) THEN q ELSE IF bt = {} THEN 0 ELSE Max(bt)
        A  == {a \in (i + 1)..(c - 6) :
                  Sub(s, a, a + 4) = "/api/" /\ Ch(s, a + 5) \notin ApiStop}
    IN  IF Ch(s, i) \in Q3 /\ A # {}
        THEN [ok |-> TRUE, end |-> c, cap |-> Sub(s, i, c)]
        ELSE NoMatch

\* /fetch\s*\(\s*['"`]([^'"`]+)['"`]\s*\)/ anchored at i
FetchAt(s, i) ==
    LET p == SkipWs(s, i + 5)            \* the "("
        o == SkipWs(s, p + 1)            \* the opening quote
        e == RunEnd(s, o + 1, Q3)
        z == SkipWs(s, e + 2)            \* the ")"
    IN  IF /\ Sub(s, i, i + 4) = "fetch"
           /\ Ch(s, p) = "("
           /\ Ch(s, o) \in Q3
           /\ e >= o + 1
           /\ Ch(s, e + 1) \in Q3
           /\ Ch(s, z) = ")"
        THEN [ok |-> TRUE, end |-> z, cap |-> Sub(s, o + 1, e)]
        ELSE NoMatch

\* /url\s*:\s*['"`]([^'"`]+)['"`]/ anchored at i
AjaxAt(s, i) ==
    LET p == SkipWs(s, i + 3)            \* the ":"
        o == SkipWs(s, p + 1)            \* the opening quote
        e == RunEnd(s, o + 1, Q3)
    IN  IF /\ Sub(s, i, i + 2) = "url"
           /\ Ch(s, p) = ":"
           /\ Ch(s, o) \in Q3
           /\ e >= o + 1
           /\ Ch(s, e + 1) \in Q3
        THEN [ok |-> TRUE, end |-> e + 1, cap |-> Sub(s, o + 1, e)]
        ELSE NoMatch

\* the regular expressions of scanner.js, by name
ReAt(re, s, i) ==
    CASE re = "api"      -> ApiAt(s, i)
      [] re = "template" -> TemplateAt(s, i)
      [] re = "fetch"    -> FetchAt(s, i)
      [] re = "ajax"     -> AjaxAt(s, i)
      [] OTHER           -> AttrAt(re, s, i)

NoFirst == [ok |-> FALSE, start |-> 0, end |-> 0, cap |-> ""]

\* the leftmost match of re in the string value s at or after i
ReFirstIn(re, s, i) ==
    Let({k \in i..Len(s) : ReAt(re, s, k).ok}, LAMBDA hits :
        IF hits = {} THEN NoFirst
        ELSE Let(Min(hits), LAMBDA k :
             Let(ReAt(re, s, k), LAMBDA m :
                 [ok |-> TRUE, start |-> k, end |-> m.end, cap |-> m.cap])))

\* str.match(re) without the g flag: the leftmost match at or after i
ReFirst(re, str, i) == Let(str, LAMBDA s : ReFirstIn(re, s, i))

\* str.match(re) with the g flag: the matched substrings, left to right,
\* each search resuming after the previous match (<<>> stands for null)
ReAll(re, str, from) ==
    Let(str, LAMBDA s :
        LET F[i \in 1..(Len(s) + 1)] ==
                Let(ReFirstIn(re, s, i), LAMBDA m :
                    IF m.ok THEN <<Sub(s, m.start, m.end)>> \o F[m.end + 1]
                    ELSE <<>>)
        IN  F[from])

\* str.match(re)[1] on a string the g-flag search returned: capture group 1
Group1(re, s) == ReFirst(re, s, 1).cap

(***************************************************************************)
(* Parsed JSON (the value fs.readJson returns).  Objects keep their         *)
(* entries in insertion order, as Object.entries enumerates them.           *)
(***************************************************************************)
JStr(s)  == [t |-> "str", s |-> s]
JNum(n)  == [t |-> "num", n |-> n]
JNull    == [t |-> "null"]
JArr(xs) == [t |-> "arr", e |-> xs]
JObj(es) == [t |-> "obj", e |-> es]      \* es: sequence of <<key, value>>

\* ToBoolean of a parsed JSON value: "", 0 and null are falsy
Truthy(v) ==
    CASE v.t = "str"  -> v.s # ""
      [] v.t = "num"  -> v.n # 0
      [] v.t = "null" -> FALSE
      [] OTHER        -> TRUE

\* content.NAME of a parsed value that is not null: the member's value, or
\* undefined ([t |-> "undef"]) when content has no such own property
Member(content, name) ==
    IF content.t = "obj" /\ \E i \in 1..Len(content.e) : content.e[i][1] = name
    THEN content.e[CHOOSE i \in 1..Len(content.e) : content.e[i][1] = name][2]
    ELSE [t |-> "undef"]

\* if (content.exec || content.steps)  -- scanner.js line 57
IsServerAction(content) ==
    \/ (Member(content, "exec").t # "undef" /\ Truthy(Member(content, "exec")))
    \/ (Member(content, "steps").t # "undef" /\ Truthy(Member(content, "steps")))

\* Scanner.findInObject: the values handed to the callback, in call order.
\* A value found under the searched key is handed over and not descended into.
RECURSIVE findInObject(_, _)
findInObject(obj, key) ==
    Let(obj, LAMBDA o :
        IF o.t = "arr"
        THEN FlatMap(o.e, LAMBDA item : findInObject(item, key))
        ELSE IF o.t = "obj"
        THEN FlatMap(o.e, LAMBDA entry :
                 IF entry[1] = key THEN <<entry[2]>>
                 ELSE findInObject(entry[2], key))
        ELSE <<>>)

(***************************************************************************)
(* Path normalisation.                                                     *)
(***************************************************************************)
\* Scanner.filePathToUrl
filePathToUrl(filePath) ==
    IF StartsWith(filePath, "app/api/")
    THEN "/" \o ReplaceFirst(ReplaceFirst(filePath, "app/", ""), ".json", "")
    ELSE IF StartsWith(filePath, "app/lib/")
    THEN ReplaceFirst(ReplaceFirst(filePath, "app/", ""), ".json", "")
    ELSE ReplaceFirst(filePath, ".json", "")

\* the extension stripping of addReference (scanner.js lines 281-283)
StripJson(p) == IF EndsWith(p, ".json") THEN ReplaceFirst(p, ".json", "") ELSE p

\* the prefix rules of addReference (scanner.js lines 267-278)
PrefixRules(referencedPath) ==
    IF StartsWith(referencedPath, "/api/") THEN referencedPath
    ELSE IF StartsWith(referencedPath, "/app/api/")
    THEN ReplaceFirst(referencedPath, "/app/api/", "/api/")
    ELSE IF ~StartsWith(referencedPath, "/") /\ ~StartsWith(referencedPath, "lib/")
    THEN "lib/" \o referencedPath
    ELSE referencedPath

\* normalizedPath as addReference computes it
NormalizePath(referencedPath) == StripJson(PrefixRules(referencedPath))

(***************************************************************************)
(* The two Maps of the Scanner.                                            *)
(***************************************************************************)
MapHas(m, key) == \E i \in 1..Len(m) : m[i].urlPath = key
MapIndex(m, key) == CHOOSE i \in 1..Len(m) : m[i].urlPath = key
MapGet(m, key) == m[MapIndex(m, key)]
\* Map.prototype.set: an existing key keeps its place in the iteration order
MapSet(m, key, val) ==
    IF MapHas(m, key) THEN [m EXCEPT ![MapIndex(m, key)] = val]
    ELSE Append(m, val)
MapKeys(m) == {m[i].urlPath : i \in 1..Len(m)}

Ref(sourceFile, type, originalReference) ==
    [sourceFile |-> sourceFile, type |-> type,
     originalReference |-> originalReference]

\* whether the reference is pushed onto the Action's list (line 285)
Resolves(sa, normalizedPath) == MapHas(sa, normalizedPath)

\* Scanner.addReference on the pair st = [sa |-> serverActions,
\* refs |-> references]; call = [path, file, type]
\* addReference that keeps one reference per referenced string
addReferenceOncePerString(st, call) ==
    Let(st, LAMBDA s0 :
    Let(NormalizePath(call.path), LAMBDA normalizedPath :
    Let(Ref(call.file, call.type, call.path), LAMBDA r :
        [sa |->
            IF /\ Resolves(s0.sa, normalizedPath)
               /\ \A k \in 1..Len(MapGet(s0.sa, normalizedPath).references) :
                      MapGet(s0.sa, normalizedPath).references[k].originalReference
                          # call.path
            THEN [s0.sa EXCEPT ![MapIndex(s0.sa, normalizedPath)].references =
                      Append(@, r)]
            ELSE s0.sa,
         refs |->
            [k \in DOMAIN s0.refs \cup {normalizedPath} |->
                IF k = normalizedPath
                THEN Append(IF k \in DOMAIN s0.refs THEN s0.refs[k] ELSE <<>>, r)
                ELSE s0.refs[k]]])))

\* Scanner.addReference
addReference(st, call) ==
    Let(st, LAMBDA s0 :
    Let(NormalizePath(call.path), LAMBDA normalizedPath :
    Let(Ref(call.file, call.type, call.path), LAMBDA r :
        [sa |->
            IF Resolves(s0.sa, normalizedPath)
            THEN [s0.sa EXCEPT ![MapIndex(s0.sa, normalizedPath)].references =
                      Append(@, r)]
            ELSE s0.sa,
         refs |->
            [k \in DOMAIN s0.refs \cup {normalizedPath} |->
                IF k = normalizedPath
                THEN Append(IF k \in DOMAIN s0.refs THEN s0.refs[k] ELSE <<>>, r)
                ELSE s0.refs[k]]])))

\* addReference for each call, in order
addReferences(st, calls) ==
    Let(calls, LAMBDA cs :
        LET F[k \in 0..Len(cs)] ==
                IF k = 0 THEN st ELSE addReference(F[k - 1], cs[k])
        IN  F[Len(cs)])

Call(path, file, type) == [path |-> path, file |-> file, type |-> type]

\* match.split('?')[0].split('#')[0]
CleanPath(match) == SplitFirst(SplitFirst(match, "?"), "#")

\* for (const match of apiMatches): split off query and fragment, addReference
UrlStringCalls(apiMatches, sourceFile) ==
    FlatMap(apiMatches, LAMBDA match :
        <<Call(CleanPath(match), sourceFile, "url-string")>>)

\* TemplateCalls passing the whole quoted match instead of the path inside it
TemplateCallsWholeMatch(templateApiMatches, sourceFile) ==
    FlatMap(templateApiMatches, LAMBDA match :
        <<Call(CleanPath(match), sourceFile, "template-url")>>)

\* for (const match of templateApiMatches): the first /api/ path inside it
TemplateCalls(templateApiMatches, sourceFile) ==
    FlatMap(templateApiMatches, LAMBDA match :
        Let(ReFirst("api", match, 1), LAMBDA apiMatch :
            IF apiMatch.ok
            THEN <<Call(CleanPath(apiMatch.cap), sourceFile, "template-url")>>
            ELSE <<>>))

\* Scanner.scanForApiUrlPatterns: its addReference calls, in order
scanForApiUrlPatterns(str, sourceFile) ==
    Let(str, LAMBDA s :
        UrlStringCalls(ReAll("api", s, 1), sourceFile)
        \o TemplateCalls(ReAll("template", s, 1), sourceFile))

\* for (const match of matches) addReference(match.match(re)[1], file, type)
AttrCalls(re, matches, file, type) ==
    FlatMap(matches, LAMBDA match : <<Call(Group1(re, match), file, type)>>)

\* the href loop of scanHtmlFiles (lines 118-126)
HrefCalls(hrefMatches, file) ==
    FlatMap(hrefMatches, LAMBDA match :
        Let(Group1("href", match), LAMBDA url :
            IF Includes(url, "/api/") THEN scanForApiUrlPatterns(url, file)
            ELSE <<>>))

\* HtmlCalls with the url= loop tagging its references like the action= loop
HtmlCallsMistyped(content, file) ==
    AttrCalls("url", ReAll("url", content, 1), file, "html-action")
    \o AttrCalls("action", ReAll("action", content, 1), file, "html-action")
    \o HrefCalls(ReAll("href", content, 1), file)
    \o scanForApiUrlPatterns(content, file)

\* body of the loop of Scanner.scanHtmlFiles for one file (lines 97-129)
HtmlCalls(content, file) ==
    AttrCalls("url", ReAll("url", content, 1), file, "html-url")
    \o AttrCalls("action", ReAll("action", content, 1), file, "html-action")
    \o HrefCalls(ReAll("href", content, 1), file)
    \o scanForApiUrlPatterns(content, file)

\* the fetch / ajax loops of scanJavaScriptFiles: only urls under /api/
ScriptCalls(re, matches, file, type) ==
    FlatMap(matches, LAMBDA match :
        Let(Group1(re, match), LAMBDA url :
            IF StartsWith(url, "/api/") THEN <<Call(url, file, type)>>
            ELSE <<>>))

\* body of the loop of Scanner.scanJavaScriptFiles for one file (lines 221-243)
JsCalls(content, file) ==
    ScriptCalls("fetch", ReAll("fetch", content, 1), file, "js-fetch")
    \o ScriptCalls("ajax", ReAll("ajax", content, 1), file, "js-ajax")

\* callback of the api_file walk: addReference(value, ...) whatever value is;
\* a value that is no string makes value.startsWith throw (marked by "throw")
ApiFileCalls(values, file) ==
    FlatMap(values, LAMBDA value :
        IF value.t = "str" THEN <<Call(value.s, file, "queue-api-file")>>
        ELSE <<Call("", file, "throw")>>)

\* callbacks of the exec / module walks: string values only
StringCalls(values, file, type) ==
    FlatMap(values, LAMBDA value :
        IF value.t = "str" THEN <<Call(value.s, file, type)>> ELSE <<>>)

\* callbacks of the value / url / link walks: string values go through the
\* generic URL-pattern scan
TextCalls(values, file) ==
    FlatMap(values, LAMBDA value :
        IF value.t = "str" THEN scanForApiUrlPatterns(value.s, file) ELSE <<>>)

\* the calls made before the first throwing one: the exception leaves the
\* try block of scanJsonFiles and the rest of the file is skipped
UntilThrow(calls) ==
    Let(calls, LAMBDA cs :
    Let({k \in 1..Len(cs) : cs[k].type = "throw"}, LAMBDA thrown :
        IF thrown = {} THEN cs ELSE SubSeq(cs, 1, Min(thrown) - 1)))

\* body of the try block of Scanner.scanJsonFiles for one parsed file
\* (lines 140-179)
JsonCalls(content, file) ==
    UntilThrow(
        ApiFileCalls(findInObject(content, "api_file"), file)
        \o StringCalls(findInObject(content, "exec"), file, "exec-string")
        \o StringCalls(findInObject(content, "module"), file, "exec-module")
        \o TextCalls(findInObject(content, "value"), file)
        \o TextCalls(findInObject(content, "url"), file)
        \o TextCalls(findInObject(content, "link"), file))

(***************************************************************************)
(* Files of the project tree.  body is what reading the file gives: the    *)
(* text, the parsed JSON value, or "bad" when fs.readJson throws.          *)
(***************************************************************************)
JsonFile(path, value) == [path |-> path, body |-> value]
BadJsonFile(path)     == [path |-> path, body |-> [t |-> "bad"]]
TextFile(path, text)  == [path |-> path, body |-> [t |-> "text", s |-> text]]

\* glob([app/api/**/*.json, app/lib/**/*.json])
IsActionPath(p) ==
    (StartsWith(p, "app/api/") \/ StartsWith(p, "app/lib/")) /\ EndsWith(p, ".json")
\* glob({views,public}/**/*.{html,ejs})
IsHtmlPath(p) ==
    (StartsWith(p, "views/") \/ StartsWith(p, "public/"))
    /\ (EndsWith(p, ".html") \/ EndsWith(p, ".ejs"))
\* glob(app/**/*.json)
IsJsonPath(p) == StartsWith(p, "app/") /\ EndsWith(p, ".json")
\* glob({public,views,extensions}/**/*.js)
IsJsPath(p) ==
    (StartsWith(p, "public/") \/ StartsWith(p, "views/")
     \/ StartsWith(p, "extensions/"))
    /\ EndsWith(p, ".js")

GlobMatches(kind, p) ==
    CASE kind = "discover" -> IsActionPath(p)
      [] kind = "html"     -> IsHtmlPath(p)
      [] kind = "json"     -> IsJsonPath(p)
      [] kind = "js"       -> IsJsPath(p)

\* the files a glob returns, in the tree's enumeration order
Glob(kind, files) ==
    FlatMap(files, LAMBDA f : IF GlobMatches(kind, f.path) THEN <<f>> ELSE <<>>)

(***************************************************************************)
(* Discovery.                                                              *)
(***************************************************************************)
\* discoverFile keeping the reference list of an Action that is already
\* in the Map
discoverFileKeepsReferences(sa, file) ==
    LET relativePath == file.path
        urlPath == filePathToUrl(relativePath)
        content == file.body
    IN  IF content.t \in {"bad", "null"} THEN sa
        ELSE IF IsServerAction(content)
        THEN MapSet(sa, urlPath,
                    [urlPath |-> urlPath, relativePath |-> relativePath,
                     content |-> content,
                     references |-> IF MapHas(sa, urlPath)
                                    THEN MapGet(sa, urlPath).references
                                    ELSE <<>>])
        ELSE sa

\* body of the loop of Scanner.discoverServerActions for one file (lines
\* 51-69): a file that does not parse, or whose content is null (reading
\* content.exec throws), is skipped with a warning
discoverFile(sa, file) ==
    LET relativePath == file.path
        urlPath == filePathToUrl(relativePath)
        content == file.body
    IN  IF content.t \in {"bad", "null"} THEN sa
        ELSE IF IsServerAction(content)
        THEN MapSet(sa, urlPath,
                    [urlPath |-> urlPath, relativePath |-> relativePath,
                     content |-> content, references |-> <<>>])
        ELSE sa

(***************************************************************************)
(* Classification.                                                         *)
(***************************************************************************)
confidenceOrder(c) == IF c = "safe-to-delete" THEN 0 ELSE 1

\* the comparator handed to results.actions.sort (lines 342-345)
Compare(a, b) == confidenceOrder(a.confidence) - confidenceOrder(b.confidence)

\* InsertSorted putting x before the elements it compares equal to
RECURSIVE InsertSortedBeforeEqual(_, _)
InsertSortedBeforeEqual(s, x) ==
    IF s = <<>> THEN <<x>>
    ELSE IF Compare(s[Len(s)], x) < 0 THEN Append(s, x)
    ELSE Append(InsertSortedBeforeEqual(SubSeq(s, 1, Len(s) - 1), x), s[Len(s)])

\* x put into the sorted sequence s behind every element it does not precede
RECURSIVE InsertSorted(_, _)
InsertSorted(s, x) ==
    IF s = <<>> THEN <<x>>
    ELSE IF Compare(s[Len(s)], x) <= 0 THEN Append(s, x)
    ELSE Append(InsertSorted(SubSeq(s, 1, Len(s) - 1), x), s[Len(s)])

\* Array.prototype.sort with a comparator: a stable sort (ECMAScript 2019)
Sort(s) ==
    LET F[k \in 0..Len(s)] ==
            IF k = 0 THEN <<>>
            ELSE Let(F[k - 1], LAMBDA sorted : InsertSorted(sorted, s[k]))
    IN  F[Len(s)]

\* ResultEntry with the tier decided by "at most one reference"
ResultEntryOffByOne(action) ==
    LET referenceCount == Len(action.references)
    IN  [urlPath |-> action.urlPath,
         filePath |-> action.relativePath,
         status |-> IF referenceCount <= 1 THEN "unused" ELSE "used",
         confidence |-> IF referenceCount <= 1 THEN "safe-to-delete"
                        ELSE "review-needed",
         referenceCount |-> referenceCount,
         references |-> action.references,
         content |-> action.content]

\* the entry analyzeResults pushes for one Action (lines 316-338)
ResultEntry(action) ==
    LET referenceCount == Len(action.references)
    IN  [urlPath |-> action.urlPath,
         filePath |-> action.relativePath,
         status |-> IF referenceCount = 0 THEN "unused" ELSE "used",
         confidence |-> IF referenceCount = 0 THEN "safe-to-delete"
                        ELSE "review-needed",
         referenceCount |-> referenceCount,
         references |-> action.references,
         content |-> action.content]

\* Scanner.analyzeResults
analyzeResults(sa) ==
    Let([i \in 1..Len(sa) |-> ResultEntry(sa[i])], LAMBDA entries :
        [summary |->
            [totalActions |-> Len(sa),
             used |-> Cardinality({i \in 1..Len(sa) : Len(sa[i].references) # 0}),
             possiblyUnused |-> 0,
             likelyUnused |->
                 Cardinality({i \in 1..Len(sa) : Len(sa[i].references) = 0})],
         actions |-> Sort(entries)])

NoResults == [summary |-> [totalActions |-> 0, used |-> 0, possiblyUnused |-> 0,
                           likelyUnused |-> 0],
              actions |-> <<>>]

(***************************************************************************)
(* Empty folders (EmptyFolderDetector).  The tree is the set D of the      *)
(* directory paths and the sequence files; a path is relative to the       *)
(* project root.                                                           *)
(***************************************************************************)
Slashes(p) == {i \in 1..Len(p) : Ch(p, i) = "/"}
\* the directories above a path
Ancestors(p) == {Sub(p, 1, i - 1) : i \in Slashes(p)}
\* path.dirname
ParentOf(p) == IF Slashes(p) = {} THEN "" ELSE Sub(p, 1, Max(Slashes(p)) - 1)

FilePaths(files) == {files[i].path : i \in 1..Len(files)}

\* the elements of a set in the order in which the file system lists them
SetToSeq(S) ==
    CHOOSE s \in [1..Cardinality(S) -> S] :
        \A i, j \in 1..Cardinality(S) : i # j => s[i] # s[j]

\* fs.readdir(dir): the names in dir, directories and files
Readdir(dir, D, files) ==
    SetToSeq({c \in D \cup FilePaths(files) : c # "" /\ ParentOf(c) = dir})

\* hasNonEmptyContent looking at the files of dir only, not below
hasNonEmptyContentShallow(dir, D, files) ==
    \E k \in 1..Len(Readdir(dir, D, files)) :
        Readdir(dir, D, files)[k] \in FilePaths(files)

\* EmptyFolderDetector.hasNonEmptyContent(dir, readdir(dir))
RECURSIVE hasNonEmptyContent(_, _, _)
hasNonEmptyContent(dir, D, files) ==
    Let(Readdir(dir, D, files), LAMBDA items :
        \E k \in 1..Len(items) :
            \/ items[k] \in FilePaths(files)
            \/ items[k] \in D /\ hasNonEmptyContent(items[k], D, files))

\* EmptyFolderDetector.findEmptyFoldersInDirectory
RECURSIVE findEmptyFoldersInDirectory(_, _, _)
findEmptyFoldersInDirectory(dir, D, files) ==
    Let(Readdir(dir, D, files), LAMBDA items :
        IF items = <<>> THEN <<dir>>
        ELSE FlatMap(items, LAMBDA item :
                 IF item \in D THEN findEmptyFoldersInDirectory(item, D, files)
                 ELSE <<>>)
             \o (IF ~hasNonEmptyContent(dir, D, files) THEN <<dir>> ELSE <<>>))

searchDirs == <<"app/api", "app/lib">>

\* EmptyFolderDetector.findEmptyFolders: the relativePath of each folder
findEmptyFolders(D, files) ==
    FlatMap(searchDirs, LAMBDA searchDir :
        IF searchDir \in D THEN findEmptyFoldersInDirectory(searchDir, D, files)
        ELSE <<>>)

\* EmptyFolderDetector.isDirectoryEmpty: readdir of a missing directory
\* throws and the catch answers false
RECURSIVE isDirectoryEmpty(_, _, _)
isDirectoryEmpty(dir, D, files) ==
    IF dir \notin D THEN FALSE
    ELSE Let(Readdir(dir, D, files), LAMBDA items :
             \A k \in 1..Len(items) :
                 /\ items[k] \notin FilePaths(files)
                 /\ items[k] \in D => isDirectoryEmpty(items[k], D, files))

\* a.split(path.sep).length, up to the constant of the project root
Depth(p) == Cardinality(Slashes(p)) + 1

\* folderPaths.sort((a, b) => depthB - depthA): deepest first, stable
RECURSIVE InsertByDepth(_, _)
InsertByDepth(s, x) ==
    IF s = <<>> THEN <<x>>
    ELSE IF Depth(x) - Depth(s[Len(s)]) <= 0 THEN Append(s, x)
    ELSE Append(InsertByDepth(SubSeq(s, 1, Len(s) - 1), x), s[Len(s)])

SortByDepth(paths) ==
    LET F[k \in 0..Len(paths)] ==
            IF k = 0 THEN <<>>
            ELSE Let(F[k - 1], LAMBDA sorted : InsertByDepth(sorted, paths[k]))
    IN  F[Len(paths)]

\* p and what lies below it
Below(p, q) == q = p \/ StartsWith(q, p \o "/")

\* fs.remove(folderPath) on the directories / on the files
RemoveDirs(p, D) == {d \in D : ~Below(p, d)}
RemoveFiles(p, files) ==
    FlatMap(files, LAMBDA f : IF Below(p, f.path) THEN <<>> ELSE <<f>>)

NoFolderOp ==
    [pc |-> "idle", todo |-> <<>>, isEmpty |-> FALSE, deleted |-> <<>>]

(***************************************************************************)
(* Dead routes (RoutesScanner).                                            *)
(***************************************************************************)
routesFilePath == "app/config/routes.json"

\* fs.pathExists
pathExists(p, D, files) == p \in D \/ p \in FilePaths(files)

\* path.join of a directory and a name that may start with a slash
Join(dir, name) == IF StartsWith(name, "/") THEN dir \o name ELSE dir \o "/" \o name

\* route.NAME passes the test if (route.NAME)
Names(route, field) ==
    Member(route, field).t # "undef" /\ Truthy(Member(route, field))

\* checkRoute without the test of the layout
IssuesWithoutLayout(route, D, files) ==
    (IF Names(route, "page")
        /\ ~pathExists(Join("views", Member(route, "page").s \o ".ejs"), D, files)
     THEN <<"missing_page">> ELSE <<>>)
    \o (IF Names(route, "exec")
           /\ ~pathExists(Join("app", Member(route, "exec").s \o ".json"), D, files)
        THEN <<"missing_exec">> ELSE <<>>)

\* the issues RoutesScanner.checkRoute collects for a route
Issues(route, D, files) ==
    (IF Names(route, "page")
        /\ ~pathExists(Join("views", Member(route, "page").s \o ".ejs"), D, files)
     THEN <<"missing_page">> ELSE <<>>)
    \o (IF Names(route, "exec")
           /\ ~pathExists(Join("app", Member(route, "exec").s \o ".json"), D, files)
        THEN <<"missing_exec">> ELSE <<>>)
    \o (IF Names(route, "layout")
           /\ ~pathExists(Join("views/layouts", Member(route, "layout").s \o ".ejs"),
                          D, files)
        THEN <<"missing_layout">> ELSE <<>>)

\* RoutesScanner.checkRoute: what it pushes to this.deadRoutes
checkRoute(route, D, files) ==
    Let(Issues(route, D, files), LAMBDA issues :
        IF Len(issues) > 0
        THEN <<[route |-> route, path |-> Member(route, "path").s,
                issues |-> issues]>>
        ELSE <<>>)

\* routesConfig.routes || [] of the routes.json in the tree
ReadRoutes(files) ==
    Let(Member(files[CHOOSE i \in 1..Len(files) : files[i].path = routesFilePath].body,
               "routes"),
        LAMBDA routes : IF routes.t = "arr" THEN routes.e ELSE <<>>)

\* RoutesScanner.deleteRoutes: routes.json written back without the routes
\* of the given paths
deleteRoutes(files, routePaths) ==
    [i \in 1..Len(files) |->
        IF files[i].path # routesFilePath THEN files[i]
        ELSE [files[i] EXCEPT !.body =
                 JObj([k \in 1..Len(files[i].body.e) |->
                     IF files[i].body.e[k][1] # "routes" THEN files[i].body.e[k]
                     ELSE <<"routes",
                            JArr(FlatMap(files[i].body.e[k][2].e, LAMBDA route :
                                IF Member(route, "path").s \in routePaths
                                THEN <<>> ELSE <<route>>))>>])]]

(***************************************************************************)
(* The interactive session (InteractiveMode).                              *)
(***************************************************************************)
\* no dead-routes menu is open
NoRoutesScanner ==
    [pc |-> "none", routes |-> <<>>, queue |-> <<>>, deadRoutes |-> <<>>,
     scans |-> 0]

\* bin/cli.js without flags
NoOptions == [dryRun |-> FALSE]

NoDeleteOp ==
    [pc |-> "idle", todo |-> <<>>, deletedCount |-> 0, errors |-> <<>>,
     reported |-> <<>>]

\* ignore-list.json: absent, or holding the array `ignored`
NoIgnoreFile == [exists |-> FALSE, ignored |-> {}]
IgnoreFile(keys) == [exists |-> TRUE, ignored |-> keys]

\* no load and no save of the ignore list is pending
NothingInFlight == [loads |-> {}, saves |-> {}]

\* process.stdin before any KeyboardNavigation was started
NoStdin == [listeners |-> 0, rawMode |-> FALSE]

\* no InteractiveMode yet: currentFilter as its constructor sets it (line 20)
NoNav ==
    [pc |-> "new", actions |-> <<>>, currentIndex |-> 0,
     currentFilter |-> "safe-only", lastKey |-> <<>>]

\* the ignore lists and the keyboard before the interactive mode starts, on
\* a tool directory whose ignore-list.json is file
KeyboardInit(file) ==
    /\ ignoreList = {}
    /\ ignoreFile = file
    /\ inFlight = NothingInFlight
    /\ stdin = NoStdin
    /\ nav = NoNav
    /\ ignoredRoutes = <<>>

\* the InteractiveMode right after construction (lines 15-21), on a file
\* system that refuses to remove the paths lk, started with the options opts
SessionInitOn(lk, opts, file) ==
    /\ KeyboardInit(file)
    /\ folderOp = NoFolderOp
    /\ selectedForDeletion = <<>>
    /\ deleteOp = NoDeleteOp
    /\ locked = lk
    /\ options = opts
    /\ routesScanner = NoRoutesScanner
    /\ routeSelection = {}
    /\ answer = "none"

\* the same where the tool directory holds no ignore-list.json
SessionInit(lk, opts) == SessionInitOn(lk, opts, NoIgnoreFile)

\* this.results.actions.find(a => a.urlPath === urlPath)
FindAction(actions, urlPath) ==
    actions[Min({k \in 1..Len(actions) : actions[k].urlPath = urlPath})]

\* one pass of the loop of executeDelete whose catch encloses the loop:
\* the first failure ends the batch
DeleteAttemptOuterCatch(op, action, files, lk) ==
    IF action.filePath \in FilePaths(files) /\ action.filePath \in lk
    THEN [files |-> files,
          op |-> [op EXCEPT !.todo = <<>>,
                            !.errors = Append(@, action.filePath)]]
    ELSE IF action.filePath \in FilePaths(files)
    THEN [files |-> RemoveFiles(action.filePath, files),
          op |-> [op EXCEPT !.todo = Tail(@), !.deletedCount = @ + 1]]
    ELSE [files |-> files, op |-> [op EXCEPT !.todo = Tail(@)]]

\* one pass of the loop of executeDelete (lines 896-907) for the Action at
\* the head of op.todo: try { if (pathExists) { remove; deletedCount++ } }
\* catch { errors.push }
DeleteAttempt(op, action, files, lk) ==
    IF action.filePath \in FilePaths(files) /\ action.filePath \in lk
    THEN [files |-> files,
          op |-> [op EXCEPT !.todo = Tail(@),
                            !.errors = Append(@, action.filePath)]]
    ELSE IF action.filePath \in FilePaths(files)
    THEN [files |-> RemoveFiles(action.filePath, files),
          op |-> [op EXCEPT !.todo = Tail(@), !.deletedCount = @ + 1]]
    ELSE [files |-> files, op |-> [op EXCEPT !.todo = Tail(@)]]

\* the results after the deletion, were the references that the files of
\* the selected Actions made taken off the other Actions
DropSelectedAndDecrement(res, selected) ==
    Let(FlatMap(res.actions, LAMBDA a :
            IF \E k \in 1..Len(selected) : selected[k] = a.urlPath
            THEN <<>> ELSE <<a>>),
        LAMBDA kept :
    Let({FindAction(res.actions, selected[k]).filePath : k \in 1..Len(selected)},
        LAMBDA gone :
    Let([k \in 1..Len(kept) |->
            Let(FlatMap(kept[k].references, LAMBDA r :
                    IF r.sourceFile \in gone THEN <<>> ELSE <<r>>),
                LAMBDA left :
                    [kept[k] EXCEPT
                        !.references = left,
                        !.referenceCount = Len(left),
                        !.confidence = IF Len(left) = 0 THEN "safe-to-delete"
                                       ELSE "review-needed"])],
        LAMBDA live :
            [summary |->
                [res.summary EXCEPT
                    !.totalActions = Len(live),
                    !.likelyUnused = Cardinality(
                        {k \in 1..Len(live) : live[k].confidence = "safe-to-delete"}),
                    !.used = Cardinality(
                        {k \in 1..Len(live) : live[k].confidence = "review-needed"})],
             actions |-> live])))

\* the results after the deletion (lines 960-968)
DropSelected(res, selected) ==
    Let(FlatMap(res.actions, LAMBDA a :
            IF \E k \in 1..Len(selected) : selected[k] = a.urlPath
            THEN <<>> ELSE <<a>>),
        LAMBDA kept :
            [summary |->
                [res.summary EXCEPT
                    !.totalActions = Len(kept),
                    !.likelyUnused = Cardinality(
                        {k \in 1..Len(kept) : kept[k].confidence = "safe-to-delete"}),
                    !.used = Cardinality(
                        {k \in 1..Len(kept) : kept[k].confidence = "review-needed"})],
             actions |-> kept])

(***************************************************************************)
(* Scanner.scan() as a state machine; every await on a file is a step.     *)
(***************************************************************************)
\* the lifecycle state the control position stands for
Phase ==
    CASE pc = "idle"                   -> "idle"
      [] pc = "discover"               -> "discovering"
      [] pc \in {"html", "json", "js"} -> "extracting"
      [] pc = "done"                   -> "classified"
      [] pc = "failed"                 -> "failed"

\* scan() is entered (line 15); discoverServerActions globs the action trees
StartScan ==
    /\ pc \in {"idle", "done"}
    /\ scans < MaxScans
    /\ scans' = scans + 1
    /\ pc' = "discover"
    /\ queue' = Glob("discover", fs)
    /\ UNCHANGED <<disk, session, serverActions, references, results, emptyFolders>>

\* whether the body of the loop of a pass throws on the file: readJson on
\* text that is no JSON, content.exec on null, value.startsWith on an
\* api_file value that is no string
Throws(kind, file) ==
    CASE kind = "discover" -> file.body.t \in {"bad", "null"}
      [] kind = "json" ->
            \/ file.body.t = "bad"
            \/ \E k \in 1..Len(findInObject(file.body, "api_file")) :
                   findInObject(file.body, "api_file")[k].t # "str"
      [] OTHER -> FALSE

\* Caught with the try block missing in scanJsonFiles
CaughtOnlyInDiscovery(kind) == kind = "discover"

\* the passes whose loop body is a try block with a catch that goes on to
\* the next file (lines 55-69 and 139-183)
Caught(kind) == kind \in {"discover", "json"}

\* the exception leaves the loop and scan()
Escapes(kind, file) == Throws(kind, file) /\ ~Caught(kind)

\* the catch block of scan() (lines 38-41): the spinner fails, scan() rejects
ScanFails ==
    /\ pc' = "failed"
    /\ queue' = <<>>
    /\ UNCHANGED <<disk, session, serverActions, references, results, scans, emptyFolders>>

\* one iteration of the loop of discoverServerActions
DiscoverFile ==
    /\ pc = "discover"
    /\ queue # <<>>
    /\ IF Escapes("discover", Head(queue)) THEN ScanFails
       ELSE /\ serverActions' = discoverFile(serverActions, Head(queue))
            /\ queue' = Tail(queue)
            /\ UNCHANGED <<disk, session, pc, references, results, scans, emptyFolders>>

\* discovery declared over before the loop has seen its last file
DiscoveryCompleteEarly == TRUE

\* the loop of discoverServerActions has run over every file globbed
DiscoveryComplete == queue = <<>>

\* discoverServerActions returns; findReferences starts with scanHtmlFiles
FinishDiscovery ==
    /\ pc = "discover"
    /\ DiscoveryComplete
    /\ pc' = "html"
    /\ queue' = Glob("html", fs)
    /\ UNCHANGED <<disk, session, serverActions, references, results, scans, emptyFolders>>

\* the calls to addReference that scanning one file makes
FileCalls(kind, file) ==
    CASE kind = "html" -> HtmlCalls(file.body.s, file.path)
      [] kind = "js"   -> JsCalls(file.body.s, file.path)
      [] kind = "json" -> IF file.body.t = "bad" THEN <<>>
                          ELSE JsonCalls(file.body, file.path)

\* one iteration of the loop of scanHtmlFiles / scanJsonFiles /
\* scanJavaScriptFiles
ScanFile(kind) ==
    /\ pc = kind
    /\ queue # <<>>
    /\ IF Escapes(kind, Head(queue)) THEN ScanFails
       ELSE /\ \E st \in {addReferences([sa |-> serverActions, refs |-> references],
                                         FileCalls(kind, Head(queue)))} :
                   /\ serverActions' = st.sa
                   /\ references' = st.refs
            /\ queue' = Tail(queue)
            /\ UNCHANGED <<disk, session, pc, results, scans, emptyFolders>>

ScanHtmlFile == ScanFile("html")
ScanJsonFile == ScanFile("json")
ScanJsFile   == ScanFile("js")

\* scanHtmlFiles returns; scanJsonFiles globs
FinishHtml ==
    /\ pc = "html"
    /\ queue = <<>>
    /\ pc' = "json"
    /\ queue' = Glob("json", fs)
    /\ UNCHANGED <<disk, session, serverActions, references, results, scans, emptyFolders>>

\* scanJsonFiles returns; scanJavaScriptFiles globs
FinishJson ==
    /\ pc = "json"
    /\ queue = <<>>
    /\ pc' = "js"
    /\ queue' = Glob("js", fs)
    /\ UNCHANGED <<disk, session, serverActions, references, results, scans, emptyFolders>>

\* findReferences returns; findEmptyFolders and analyzeResults build the
\* value scan() returns (lines 27-36)
FinishScan ==
    /\ pc = "js"
    /\ queue = <<>>
    /\ pc' = "done"
    /\ results' = analyzeResults(serverActions)
    /\ emptyFolders' = findEmptyFolders(dirs, fs)
    /\ UNCHANGED <<disk, session, queue, serverActions, references, scans>>

Next ==
    \/ StartScan
    \/ DiscoverFile
    \/ FinishDiscovery
    \/ ScanHtmlFile
    \/ FinishHtml
    \/ ScanJsonFile
    \/ FinishJson
    \/ ScanJsFile
    \/ FinishScan

\* the Scanner right after construction (lines 9-13) over the tree files
InitOn(files) ==
    /\ fs = files
    /\ dirs = UNION {Ancestors(files[i].path) : i \in 1..Len(files)}
    /\ pc = "idle"
    /\ queue = <<>>
    /\ serverActions = <<>>
    /\ references = <<>>
    /\ results = NoResults
    /\ emptyFolders = <<>>
    /\ scans = 0
    /\ SessionInit({}, NoOptions)

(***************************************************************************)
(* The projects of the main specification: every tree of at most MaxFiles  *)
(* files, in every enumeration order, out of the files below.              *)
(***************************************************************************)
CreateJson ==
    JsonFile("app/api/v1/courses/create.json",
        JObj(<< <<"meta", JObj(<<>>)>>,
                <<"exec", JObj(<< <<"steps", JArr(<<
                    JObj(<< <<"module", JStr("core")>>,
                            <<"action", JStr("exec")>>,
                            <<"options", JObj(<< <<"exec", JStr("security/check")>> >>)>>
                         >>) >>)>> >>)>> >>))
CheckJson ==
    JsonFile("app/lib/security/check.json",
        JObj(<< <<"exec", JObj(<< <<"steps", JArr(<<>>)>> >>)>> >>))
SyncJson ==
    JsonFile("app/api/v1/queues/sync.json",
        JObj(<< <<"steps", JArr(<<
            JObj(<< <<"options", JObj(<< <<"exec", JStr("security/check")>> >>)>> >>),
            JObj(<< <<"value", JStr("open '/api/v1/courses/create?id='+id")>> >>)
        >>)>> >>))
QueuesJson ==
    JsonFile("app/config/queues.json",
        JObj(<< <<"queues", JArr(<<
            JObj(<< <<"api_file", JStr("/app/api/v1/queues/sync.json")>> >>) >>)>> >>))
MetaJson ==
    JsonFile("app/api/v1/meta.json",
        JObj(<< <<"meta", JObj(<< <<"options", JObj(<<>>)>> >>)>> >>))
DraftJson ==
    JsonFile("app/api/v1/draft.json", JObj(<< <<"exec", JStr("")>> >>))
BrokenJson == BadJsonFile("app/api/v1/broken.json")
IndexEjs ==
    TextFile("views/index.ejs", "<form url=\"/api/v1/courses/create\">")
AppJs ==
    TextFile("public/js/app.js", "fetch('/api/v1/queues/sync')")

FileUniverse ==
    {CreateJson, CheckJson, SyncJson, QueuesJson, MetaJson, DraftJson,
     BrokenJson, IndexEjs, AppJs}

\* sequences of at most n files of U with pairwise different paths
Trees(U, n) ==
    {f \in UNION {[1..k -> U] : k \in 1..n} :
        \A i, j \in DOMAIN f : i # j => f[i].path # f[j].path}

Init == \E files \in Trees(FileUniverse, MaxFiles) : InitOn(files)

Spec == Init /\ [][Next]_vars

(***************************************************************************)
(* Helpers of the properties.                                              *)
(***************************************************************************)
\* the indices of a sequence whose element satisfies a test are written
\* {i \in 1..Len(s) : ...}; Count is their number
RefsOfType(refs, type) == {i \in 1..Len(refs) : refs[i].type = type}

\* the files of the tree that discovery indexes: matched by the glob, parsed,
\* and passing the exec/steps gate
DeclaredActionFiles ==
    {i \in 1..Len(fs) :
        /\ IsActionPath(fs[i].path)
        /\ fs[i].body.t \notin {"bad", "null"}
        /\ IsServerAction(fs[i].body)}

(***************************************************************************)
(* C1.  After any completed scan, every Action of the result with an empty *)
(* reference list has confidence safe-to-delete, every Action with one or  *)
(* more references has confidence review-needed, and referenceCount is the *)
(* length of the reference list.                                           *)
(***************************************************************************)
C1_Classification ==
    \A i \in 1..Len(results.actions) :
        LET a == results.actions[i]
        IN  /\ a.references = <<>> => a.confidence = "safe-to-delete"
            /\ Len(a.references) >= 1 => a.confidence = "review-needed"
            /\ a.referenceCount = Len(a.references)

\* a completed scan whose result holds an Action of each tier
C1_Witness ==
    /\ pc = "done"
    /\ \E i, j \in 1..Len(results.actions) :
          /\ results.actions[i].references = <<>>
          /\ Len(results.actions[j].references) >= 1

(***************************************************************************)
(* C2.  In every run of scan() the phases follow one another in the order  *)
(* discovering, extracting, classified, none skipped; no reference is      *)
(* appended to an Action before discovery has enumerated every Action      *)
(* file; and so every reference to an Action, also to the one discovered   *)
(* last, is on that Action's list when the scan is classified.             *)
(***************************************************************************)
\* every Action file of the tree is indexed, its reference list still empty
AllEnumerated ==
    \A i \in DeclaredActionFiles :
        /\ MapHas(serverActions, filePathToUrl(fs[i].path))
        /\ MapGet(serverActions, filePathToUrl(fs[i].path)).references = <<>>

\* this step appends a reference to the list of some Action
RefAppended ==
    \E i \in 1..Len(serverActions) :
        /\ i <= Len(serverActions')
        /\ serverActions'[i].urlPath = serverActions[i].urlPath
        /\ Len(serverActions'[i].references) > Len(serverActions[i].references)

PhaseStep ==
    /\ Phase' # Phase =>
          <<Phase, Phase'>> \in {<<"idle", "discovering">>,
                                 <<"discovering", "extracting">>,
                                 <<"extracting", "classified">>,
                                 <<"classified", "discovering">>}
    /\ (Phase = "discovering" /\ Phase' = "extracting") => AllEnumerated
    /\ RefAppended =>
          /\ Phase = "extracting"
          /\ \A i \in DeclaredActionFiles :
                MapHas(serverActions, filePathToUrl(fs[i].path))

\* what the lookup Map recorded under an Action's key during the scans so
\* far is, scan by scan, what the Action's own list holds
ResolvedAll ==
    pc = "done" =>
        \A i \in 1..Len(serverActions) :
            LET a == serverActions[i]
                all == IF a.urlPath \in DOMAIN references
                       THEN references[a.urlPath] ELSE <<>>
            IN  /\ Len(all) = scans * Len(a.references)
                /\ SubSeq(all, Len(all) - Len(a.references) + 1, Len(all))
                       = a.references

C2_PhaseOrder == [][PhaseStep]_vars /\ []ResolvedAll

\* a classified scan in which the Action discovered last is referenced by a
\* file that precedes its declaration in the tree
C2_Witness ==
    /\ pc = "done"
    /\ Len(serverActions) >= 2
    /\ LET last == serverActions[Len(serverActions)]
       IN  \E k \in 1..Len(last.references) : \E i, j \in 1..Len(fs) :
              /\ fs[i].path = last.references[k].sourceFile
              /\ fs[j].path = last.relativePath
              /\ i < j

(***************************************************************************)
(* The normalisation specification: the same Scanner over trees made of    *)
(* one or two Action files app/api/STEM.json or app/lib/STEM.json, one     *)
(* structured file that refers to a path through an api_file or an exec    *)
(* field, one markup file and one script.  The stems and the references    *)
(* combine every prefix addReference tells apart with names that hold      *)
(* ".json" in a directory name or twice in the file name.                  *)
(***************************************************************************)
MaxStemActions == 2

Stems == {"v1/sync", "a.json/b", "a/b.json"}
ActionRoots == {"app/api/", "app/lib/"}
StemAction(root, stem) ==
    JsonFile(root \o stem \o ".json", JObj(<< <<"steps", JArr(<<>>)>> >>))
StemActions == {StemAction(root, stem) : root \in ActionRoots, stem \in Stems}

RefPrefixes == {"/api/", "/app/api/", "", "lib/", "/"}
RefSuffixes == {"", ".json"}
RawRefs == {p \o s \o x : p \in RefPrefixes, s \in Stems, x \in RefSuffixes}
RefFields == {"api_file", "exec"}
RefsJson(field, raw) ==
    JsonFile("app/config/refs.json", JObj(<< <<field, JStr(raw)>> >>))

NormalizeTrees ==
    {actions \o <<RefsJson(field, raw), IndexEjs, AppJs>> :
        actions \in Trees(StemActions, MaxStemActions),
        field \in RefFields, raw \in RawRefs}

InitNormalize == \E files \in NormalizeTrees : InitOn(files)

SpecNormalize == InitNormalize /\ [][Next]_vars

\* the references pushed onto the list of the Action declared by file path
RecordedOn(path) ==
    UNION {{serverActions[a].references[k] :
                k \in 1..Len(serverActions[a].references)} :
           a \in {a \in 1..Len(serverActions) :
                     serverActions[a].relativePath = path}}

\* the string values the walk of scanJsonFiles hands over for a field of the
\* parsed file body
FieldStrings(body, field) ==
    IF body.t = "bad" THEN {}
    ELSE {v.s : v \in {x \in {findInObject(body, field)[k] :
                                  k \in 1..Len(findInObject(body, field))} :
                          x.t = "str"}}

(***************************************************************************)
(* C3.  For every Action file declared at app/api/P.json, normalizing the  *)
(* reference string /app/api/P.json yields exactly the key that discovery  *)
(* assigned to that file, namely /api/P, so that a queue api_file          *)
(* reference of that form is recorded against that Action.                 *)
(***************************************************************************)
\* P of the path app/api/P.json, X of the path app/lib/X.json
PathStem(root, path) == Sub(path, Len(root) + 1, Len(path) - Len(".json"))

C3_QueueFileKey ==
    pc = "done" =>
        \A i \in DeclaredActionFiles :
            StartsWith(fs[i].path, "app/api/") =>
                LET P == PathStem("app/api/", fs[i].path)
                    raw == "/app/api/" \o P \o ".json"
                IN  /\ filePathToUrl(fs[i].path) = "/api/" \o P
                    /\ NormalizePath(raw) = filePathToUrl(fs[i].path)
                    /\ \A j \in 1..Len(fs) :
                          (/\ IsJsonPath(fs[j].path)
                           /\ raw \in FieldStrings(fs[j].body, "api_file"))
                          => Ref(fs[j].path, "queue-api-file", raw)
                                 \in RecordedOn(fs[i].path)

(***************************************************************************)
(* C4.  For every Action file declared at app/lib/X.json, the bare         *)
(* identifier X (starting with neither / nor lib/) as an exec field value  *)
(* normalizes to lib/X, which is exactly the key discovery assigned to the *)
(* file, so that the reference is recorded against that Action.            *)
(***************************************************************************)
C4_BareExecKey ==
    pc = "done" =>
        \A i \in DeclaredActionFiles :
            StartsWith(fs[i].path, "app/lib/") =>
                LET X == PathStem("app/lib/", fs[i].path)
                IN  (~StartsWith(X, "/") /\ ~StartsWith(X, "lib/")) =>
                        /\ NormalizePath(X) = "lib/" \o X
                        /\ NormalizePath(X) = filePathToUrl(fs[i].path)
                        /\ \A j \in 1..Len(fs) :
                              (/\ IsJsonPath(fs[j].path)
                               /\ X \in FieldStrings(fs[j].body, "exec"))
                              => Ref(fs[j].path, "exec-string", X)
                                     \in RecordedOn(fs[i].path)

(***************************************************************************)
(* C5.  For every input string the key computed by addReference is the     *)
(* result of the ordered rules, first match wins: a string starting with   *)
(* /api/ is kept; otherwise a leading /app/api/ is rewritten to /api/;     *)
(* otherwise a string starting with neither / nor lib/ gets lib/           *)
(* prepended; otherwise it is kept; and finally a trailing .json, and only *)
(* the trailing one, is removed.                                           *)
(***************************************************************************)
\* the rules as stated, on the characters of the string
RulePrefix(s) ==
    IF StartsWith(s, "/api/") THEN s
    ELSE IF StartsWith(s, "/app/api/")
    THEN "/api/" \o Sub(s, Len("/app/api/") + 1, Len(s))
    ELSE IF ~StartsWith(s, "/") /\ ~StartsWith(s, "lib/") THEN "lib/" \o s
    ELSE s
RuleStrip(s) ==
    IF EndsWith(s, ".json") THEN Sub(s, 1, Len(s) - Len(".json")) ELSE s
OrderedRules(s) == RuleStrip(RulePrefix(s))

C5_OrderedRules ==
    \A key \in DOMAIN references :
        \A k \in 1..Len(references[key]) :
            key = OrderedRules(references[key][k].originalReference)

(***************************************************************************)
(* C6.  Discovery indexes a parsed JSON file under app/api or app/lib as   *)
(* an Action if and only if its top-level content has an exec field or a   *)
(* steps field, whatever the value of the field.                           *)
(***************************************************************************)
\* the parsed content is an object with an own property of that name
HasField(content, name) ==
    content.t = "obj" /\ \E k \in 1..Len(content.e) : content.e[k][1] = name

C6_GateIsFieldPresence ==
    pc \notin {"idle", "discover"} =>
        \A i \in 1..Len(fs) :
            (IsActionPath(fs[i].path) /\ fs[i].body.t # "bad") =>
                (MapHas(serverActions, filePathToUrl(fs[i].path))
                 <=> (HasField(fs[i].body, "exec") \/ HasField(fs[i].body, "steps")))

(***************************************************************************)
(* C7.  The field walk hands to its callback every occurrence of the       *)
(* searched field name at every nesting depth, through arrays and nested   *)
(* objects, also the occurrences inside the value of another field of the  *)
(* same name; so every string exec value of a scanned file is recorded.    *)
(***************************************************************************)
\* every value stored under key anywhere in the parsed structure, outermost
\* first
RECURSIVE AllOccurrences(_, _)
AllOccurrences(obj, key) ==
    Let(obj, LAMBDA o :
        IF o.t = "arr"
        THEN FlatMap(o.e, LAMBDA item : AllOccurrences(item, key))
        ELSE IF o.t = "obj"
        THEN FlatMap(o.e, LAMBDA entry :
                 (IF entry[1] = key THEN <<entry[2]>> ELSE <<>>)
                 \o AllOccurrences(entry[2], key))
        ELSE <<>>)

SearchedFields == {"api_file", "exec", "module", "value", "url", "link"}

C7_WalkFindsEveryOccurrence ==
    pc \in {"js", "done"} =>
        \A i \in 1..Len(fs) :
            (IsJsonPath(fs[i].path) /\ fs[i].body.t # "bad") =>
                /\ \A key \in SearchedFields :
                      findInObject(fs[i].body, key) = AllOccurrences(fs[i].body, key)
                /\ LET execs == AllOccurrences(fs[i].body, "exec")
                   IN  \A k \in 1..Len(execs) :
                          execs[k].t = "str" =>
                             /\ NormalizePath(execs[k].s) \in DOMAIN references
                             /\ \E r \in 1..Len(references[NormalizePath(execs[k].s)]) :
                                   references[NormalizePath(execs[k].s)][r] =
                                       Ref(fs[i].path, "exec-string", execs[k].s)

(***************************************************************************)
(* The extraction specification: the same Scanner over trees that hold the *)
(* two Actions the markup and the mail templates refer to, one markup file *)
(* with the attribute url="/api/v1/courses/create" in one of several       *)
(* surroundings, one structured file with the magic-link fragment in a     *)
(* value, url or link field in one of several surroundings, and a script.  *)
(***************************************************************************)
MagicJson ==
    JsonFile("app/api/v1/security/magic-login.json",
        JObj(<< <<"steps", JArr(<<>>)>> >>))

UrlAttr == "url=\"/api/v1/courses/create\""
MagicFragment == "'/api/v1/security/magic-login?token='+tok"

MarkupContexts ==
    {"<form " \o UrlAttr \o ">",
     "<dmx-serverconnect id=\"sc\" " \o UrlAttr \o " noload>",
     "<a url='/api/v1/queues/sync'>x</a><form action=\"/save\" " \o UrlAttr \o ">",
     "<a href=\"/api/v1/courses/create\">go</a> <b data-" \o UrlAttr \o ">",
     "<a onclick=\"go(" \o MagicFragment \o ")\"> <form " \o UrlAttr \o ">",
     "<a dmx-bind:url=\"api + '/x'\">y</a> <form " \o UrlAttr \o ">"}
TemplateContexts ==
    {MagicFragment,
     "click here: " \o MagicFragment \o " now",
     "\"Hi \" + name + " \o MagicFragment,
     "base+" \o MagicFragment \o "+'&next=home'"}
TextFields == {"value", "url", "link"}

PageEjs(markup) == TextFile("views/page.ejs", markup)
MailJson(field, text) ==
    JsonFile("app/config/mail.json",
        JObj(<< <<"steps", JArr(<< JObj(<< <<field, JStr(text)>> >>) >>)>> >>))

ExtractTrees ==
    UNION {{<<CreateJson, MagicJson, PageEjs(m), MailJson(f, x), AppJs>>,
            <<AppJs, MailJson(f, x), PageEjs(m), MagicJson, CreateJson>>} :
           m \in MarkupContexts, f \in TextFields, x \in TemplateContexts}

InitExtract == \E files \in ExtractTrees : InitOn(files)

SpecExtract == InitExtract /\ [][Next]_vars

\* the positions at which p occurs in s
Occurrences(s, p) == {i \in 1..Len(s) : Sub(s, i, i + Len(p) - 1) = p}

\* the references of one type that one source file left on the Action key
RefsFrom(key, type, path) ==
    IF MapHas(serverActions, key)
    THEN {k \in RefsOfType(MapGet(serverActions, key).references, type) :
             MapGet(serverActions, key).references[k].sourceFile = path}
    ELSE {}

ScannedStrings(f) ==
    IF IsJsonPath(f.path)
    THEN UNION {FieldStrings(f.body, field) : field \in TextFields}
    ELSE IF IsHtmlPath(f.path) THEN {f.body.s}
    ELSE {}

FilePos(path) == CHOOSE i \in 1..Len(fs) : fs[i].path = path

C10_SafeFirstStable ==
    pc = "done" =>
        /\ Len(results.actions) = Cardinality(DeclaredActionFiles)
        /\ \A i, j \in 1..Len(results.actions) :
              i < j =>
                 LET a == results.actions[i]
                     b == results.actions[j]
                 IN  /\ ~(a.confidence = "review-needed"
                          /\ b.confidence = "safe-to-delete")
                     /\ a.confidence = b.confidence =>
                            FilePos(a.filePath) < FilePos(b.filePath)

\* a classified scan of three Actions: two of one tier, and one that is
\* safe to delete discovered after one that needs review
C10_Witness ==
    /\ pc = "done"
    /\ Len(results.actions) = 3
    /\ \E i, j \in 1..Len(results.actions) :
          /\ i # j
          /\ results.actions[i].confidence = results.actions[j].confidence
    /\ \E i, j \in 1..Len(serverActions) :
          /\ i < j
          /\ serverActions[i].references # <<>>
          /\ serverActions[j].references = <<>>

(***************************************************************************)
(* The rescan specification: the main specification with one more step,    *)
(* the caller constructing a fresh Scanner for its next scan while it      *)
(* keeps the result of the previous one.                                   *)
(***************************************************************************)
\* new Scanner(projectRoot) (lines 9-13) after a completed scan
NewScanner ==
    /\ pc = "done"
    /\ scans < MaxScans
    /\ pc' = "idle"
    /\ serverActions' = <<>>
    /\ references' = <<>>
    /\ UNCHANGED <<disk, session, queue, results, scans, emptyFolders>>

NextRescan == Next \/ NewScanner

SpecRescan == Init /\ [][NextRescan]_vars

(***************************************************************************)
(* C11.  Running scan() twice with no change of the tree in between, on    *)
(* the same Scanner or on a fresh one, yields an identical summary, the    *)
(* same order of the actions array and, for every Action, the same         *)
(* reference list up to order: nothing is carried over or doubled.         *)
(***************************************************************************)
\* how often r occurs in the list refs
Times(refs, r) == Cardinality({k \in 1..Len(refs) : refs[k] = r})

SameUpToOrder(xs, ys) ==
    /\ Len(xs) = Len(ys)
    /\ \A k \in 1..Len(xs) : Times(xs, xs[k]) = Times(ys, xs[k])

SameResult(r1, r2) ==
    /\ r1.summary = r2.summary
    /\ Len(r1.actions) = Len(r2.actions)
    /\ \A i \in 1..Len(r1.actions) :
          /\ i <= Len(r2.actions)
          /\ r1.actions[i].urlPath = r2.actions[i].urlPath
          /\ r1.actions[i].filePath = r2.actions[i].filePath
          /\ r1.actions[i].confidence = r2.actions[i].confidence
          /\ r1.actions[i].referenceCount = r2.actions[i].referenceCount
          /\ SameUpToOrder(r1.actions[i].references, r2.actions[i].references)

\* the step on which a second or later scan returns: results still holds
\* what the scan before returned
RescanStep == (pc = "js" /\ pc' = "done" /\ scans >= 2) => SameResult(results, results')

C11_RescanIdempotent == [][RescanStep]_vars

\* a second scan on the same Scanner is classified: the lookup Map holds
\* the references to an Action twice, the Action's own list once
C11_Witness ==
    /\ pc = "done"
    /\ scans = 2
    /\ \E i \in 1..Len(results.actions) :
          /\ results.actions[i].references # <<>>
          /\ results.actions[i].urlPath \in DOMAIN references
          /\ Len(references[results.actions[i].urlPath])
                 = 2 * Len(results.actions[i].references)

(***************************************************************************)
(* C12.  A file under app/ that is not valid JSON never aborts scan():     *)
(* discovery skips it, the structured-file pass skips it, and the scan     *)
(* still returns a result that contains every Action declared in the other *)
(* files, with their references.                                           *)
(***************************************************************************)
\* the files of the tree that do not parse
Unparsed == {i \in 1..Len(fs) : fs[i].body.t = "bad"}

\* the references the lookup Map recorded under the key in the last scan
LastScanRefs(key, n) ==
    IF key \in DOMAIN references
    THEN SubSeq(references[key], Len(references[key]) - n + 1, Len(references[key]))
    ELSE <<>>

C12_ParseErrorSkipped ==
    /\ pc # "failed"
    /\ (pc = "done" /\ Unparsed # {}) =>
          /\ \A i \in Unparsed :
                \A k \in 1..Len(results.actions) :
                    results.actions[k].filePath # fs[i].path
          /\ \A i \in DeclaredActionFiles :
                \E k \in 1..Len(results.actions) :
                    /\ results.actions[k].filePath = fs[i].path
                    /\ results.actions[k].references
                           = LastScanRefs(results.actions[k].urlPath,
                                          Len(results.actions[k].references))
                    /\ \A j \in 1..Len(fs) :
                          (/\ IsJsonPath(fs[j].path)
                           /\ fs[j].body.t # "bad"
                           /\ \E s \in FieldStrings(fs[j].body, "exec") :
                                 NormalizePath(s) = results.actions[k].urlPath)
                          => \E r \in 1..Len(results.actions[k].references) :
                                results.actions[k].references[r].sourceFile
                                    = fs[j].path

\* a classified scan of a tree in which a file that does not parse comes
\* before an Action file and before the file that refers to that Action
C12_Witness ==
    /\ pc = "done"
    /\ \E b \in Unparsed : \E i \in DeclaredActionFiles :
          /\ b < i
          /\ \E k \in 1..Len(results.actions) :
                /\ results.actions[k].filePath = fs[i].path
                /\ \E r \in 1..Len(results.actions[k].references) :
                      \E j \in 1..Len(fs) :
                          /\ b < j
                          /\ fs[j].path = results.actions[k].references[r].sourceFile

(***************************************************************************)
(* The folder specification: the same Scanner over trees with directories  *)
(* that hold no file.  A tree is a set of directories under app/api and    *)
(* app/lib, closed under the parent, and some of the files below.          *)
(***************************************************************************)
FolderUniverse ==
    {"app/api", "app/api/v1", "app/api/v1/old", "app/api/v2",
     "app/lib", "app/lib/tmp"}

KeepJson ==
    JsonFile("app/api/v1/keep.json", JObj(<< <<"steps", JArr(<<>>)>> >>))
NotesTxt == TextFile("app/api/v1/old/notes.txt", "see /api/v1/keep")
TmpJson ==
    JsonFile("app/lib/tmp/x.json", JObj(<< <<"exec", JObj(<<>>)>> >>))

FolderFiles == <<KeepJson, NotesTxt, TmpJson, IndexEjs, AppJs>>

\* the subsequence of files picked by the index set
Pick(files, I) ==
    FlatMap([k \in 1..Len(files) |-> k], LAMBDA k :
        IF k \in I THEN <<files[k]>> ELSE <<>>)

\* the Scanner after construction over the files and the directories D
\* besides those the files lie in
InitTree(files, D) ==
    /\ fs = files
    /\ dirs = D \cup UNION {Ancestors(files[i].path) : i \in 1..Len(files)}
    /\ pc = "idle"
    /\ queue = <<>>
    /\ serverActions = <<>>
    /\ references = <<>>
    /\ results = NoResults
    /\ emptyFolders = <<>>
    /\ scans = 0
    /\ SessionInit({}, NoOptions)

InitFolders ==
    \E D \in SUBSET FolderUniverse : \E I \in SUBSET (1..Len(FolderFiles)) :
        /\ \A d \in D : Ancestors(d) \subseteq D \cup {"app"}
        /\ InitTree(Pick(FolderFiles, I), D)

SpecFolders == InitFolders /\ [][Next]_vars

(***************************************************************************)
(* C13.  findEmptyFolders returns exactly the directories, among app/api,  *)
(* app/lib and their descendants, that transitively contain no file: a     *)
(* directory whose only entries are empty subdirectories is reported       *)
(* together with those subdirectories, each directory at most once, and no *)
(* directory that contains a file at any depth is reported.                *)
(***************************************************************************)
\* app/api, app/lib and the directories below them
UnderSearchDirs(D) ==
    {d \in D : \E k \in 1..Len(searchDirs) :
        d = searchDirs[k] \/ StartsWith(d, searchDirs[k] \o "/")}

\* no file of the tree lies in d at any depth
HoldsNoFile(d) == \A i \in 1..Len(fs) : ~StartsWith(fs[i].path, d \o "/")

C13_EmptyFoldersExact ==
    pc = "done" =>
        /\ {emptyFolders[k] : k \in 1..Len(emptyFolders)}
               = {d \in UnderSearchDirs(dirs) : HoldsNoFile(d)}
        /\ \A j, k \in 1..Len(emptyFolders) :
              j # k => emptyFolders[j] # emptyFolders[k]

\* a scan that reported a directory whose only entries are two empty
\* subdirectories, next to a directory that holds a file and is not reported
C13_Witness ==
    /\ pc = "done"
    /\ \E j, k, m \in 1..Len(emptyFolders) :
          /\ emptyFolders[k] # emptyFolders[m]
          /\ ParentOf(emptyFolders[k]) = emptyFolders[j]
          /\ ParentOf(emptyFolders[m]) = emptyFolders[j]
    /\ \E d \in UnderSearchDirs(dirs) : ~HoldsNoFile(d)

(***************************************************************************)
(* The folder clean-up specification: after the scan the user deletes      *)
(* empty folders from the main menu, while files may appear in the tree.   *)
(***************************************************************************)
\* InteractiveMode.manageEmptyFolders up to the call of deleteEmptyFolders
\* (lines 736-789): the checkbox prompt, the confirmation, the sort of
\* deleteEmptyFolders (part_001 lines 87-97)
ManageEmptyFolders ==
    /\ pc = "done"
    /\ routesScanner.pc = "none"
    /\ folderOp.pc = "idle"
    /\ deleteOp.pc = "idle"
    /\ emptyFolders # <<>>
    /\ \E I \in SUBSET (1..Len(emptyFolders)) : \E confirm \in Answers :
          IF I = {} THEN UNCHANGED <<folderOp, answer>>
          ELSE /\ answer' = confirm
               /\ IF Confirmed(confirm)
                  THEN folderOp' = [pc |-> "loop",
                                    todo |-> SortByDepth(Pick(emptyFolders, I)),
                                    isEmpty |-> FALSE, deleted |-> <<>>]
                  ELSE UNCHANGED folderOp
    /\ UNCHANGED <<disk, marking, pc, queue, serverActions, references,
                   results, emptyFolders, scans>>

\* await this.isDirectoryEmpty(folderPath) (part_001 line 102)
CheckFolder ==
    /\ folderOp.pc = "loop"
    /\ folderOp.todo # <<>>
    /\ folderOp' = [folderOp EXCEPT
                       !.pc = "checked",
                       !.isEmpty = isDirectoryEmpty(Head(folderOp.todo), dirs, fs)]
    /\ UNCHANGED <<disk, marking, answer, pc, queue, serverActions, references,
                   results, emptyFolders, scans>>

\* if (isEmpty) { await fs.remove(folderPath); deleted.push(folderPath) }
\* (part_001 lines 103-106)
RemoveFolder ==
    /\ folderOp.pc = "checked"
    /\ IF folderOp.isEmpty
       THEN /\ dirs' = RemoveDirs(Head(folderOp.todo), dirs)
            /\ fs' = RemoveFiles(Head(folderOp.todo), fs)
            /\ folderOp' = [folderOp EXCEPT
                               !.pc = "loop",
                               !.todo = Tail(@),
                               !.deleted = Append(@, Head(folderOp.todo))]
       ELSE /\ folderOp' = [folderOp EXCEPT !.pc = "loop", !.todo = Tail(@)]
            /\ UNCHANGED disk
    /\ UNCHANGED <<marking, answer, pc, queue, serverActions, references, results,
                   emptyFolders, scans>>

\* deleteEmptyFolders returns; manageEmptyFolders drops the deleted folders
\* from results.emptyFolders (lines 803-809)
FinishFolderDelete ==
    /\ folderOp.pc = "loop"
    /\ folderOp.todo = <<>>
    /\ deleteOp.pc = "idle"
    /\ emptyFolders' =
           FlatMap(emptyFolders, LAMBDA folder :
               IF \E k \in 1..Len(folderOp.deleted) : folderOp.deleted[k] = folder
               THEN <<>> ELSE <<folder>>)
    /\ folderOp' = NoFolderOp
    /\ UNCHANGED <<disk, marking, answer, pc, queue, serverActions, references,
                   results, scans>>

\* files another process may create in the tree once the scan is over
NewFiles ==
    {TextFile("app/api/v2/new.txt", "draft"),
     JsonFile("app/lib/tmp/late.json", JObj(<< <<"steps", JArr(<<>>)>> >>))}

\* another process creates a file in a directory that exists
AddFile ==
    /\ pc = "done"
    /\ \E f \in NewFiles :
          /\ f.path \notin FilePaths(fs)
          /\ ParentOf(f.path) \in dirs
          /\ fs' = Append(fs, f)
    /\ UNCHANGED <<dirs, session, pc, queue, serverActions, references,
                   results, emptyFolders, scans>>

\* bin/cli.js constructs one Scanner and awaits one scan() before it starts
\* the interactive mode
CliScan == Next /\ scans' = 1

NextFolderOps ==
    \/ CliScan
    \/ ManageEmptyFolders
    \/ CheckFolder
    \/ RemoveFolder
    \/ FinishFolderDelete
    \/ AddFile

SpecFolderOps == InitFolders /\ [][NextFolderOps]_vars

(***************************************************************************)
(* C14  deleteEmptyFolders re-verifies each path right before it removes   *)
(* it: a directory that holds a file, at any depth, when it is processed   *)
(* is not removed and not listed in deleted, and no step of the operation  *)
(* removes a file.                                                         *)
(***************************************************************************)
\* the directory holds a file at some depth
HoldsFile(dir, files) ==
    \E i \in 1..Len(files) : StartsWith(files[i].path, dir \o "/")

\* the step of deleteEmptyFolders that ends the processing of one path
ProcessedStep == folderOp.pc = "checked" /\ folderOp'.pc = "loop"

FolderKept ==
    (ProcessedStep /\ HoldsFile(Head(folderOp.todo), fs))
        => /\ Head(folderOp.todo) \in dirs'
           /\ folderOp'.deleted = folderOp.deleted

NoFileRemoved == (folderOp.pc # "idle") => FilePaths(fs) \subseteq FilePaths(fs')

C14_ReverifiedBeforeRemoval == [][FolderKept /\ NoFileRemoved]_vars

(***************************************************************************)
(* The session specification: bin/cli.js scans once and starts the         *)
(* interactive mode, in which the user marks Actions, deletes the marked   *)
(* Action files and deletes empty folders.                                 *)
(***************************************************************************)
\* handleRightArrow (lines 285-293): mark an Action of the results
MarkForDeletion ==
    /\ pc = "done"
    /\ routesScanner.pc = "none"
    /\ deleteOp.pc = "idle"
    /\ folderOp.pc = "idle"
    /\ \E k \in 1..Len(results.actions) :
          /\ \A j \in 1..Len(selectedForDeletion) :
                 selectedForDeletion[j] # results.actions[k].urlPath
          /\ selectedForDeletion' =
                 Append(selectedForDeletion, results.actions[k].urlPath)
    /\ UNCHANGED <<disk, folderOp, deleteOp, locked, keyboard, options, answer, routing, pc, queue,
                   serverActions, references, results, emptyFolders, scans>>

\* handleSpaceReset (lines 295-305): take the mark off an Action
UnmarkForDeletion ==
    /\ pc = "done"
    /\ routesScanner.pc = "none"
    /\ deleteOp.pc = "idle"
    /\ folderOp.pc = "idle"
    /\ \E j \in 1..Len(selectedForDeletion) :
          selectedForDeletion' =
              Pick(selectedForDeletion, (1..Len(selectedForDeletion)) \ {j})
    /\ UNCHANGED <<disk, folderOp, deleteOp, locked, keyboard, options, answer, routing, pc, queue,
                   serverActions, references, results, emptyFolders, scans>>

\* executeDelete up to the loop (lines 852-894): nothing to do on an empty
\* selection; the confirmation prompt; on "no" the method returns
ExecuteDelete ==
    /\ pc = "done"
    /\ routesScanner.pc = "none"
    /\ deleteOp.pc = "idle"
    /\ folderOp.pc = "idle"
    /\ selectedForDeletion # <<>>
    /\ \E confirm \in Answers :
          /\ answer' = confirm
          /\ IF Confirmed(confirm)
             THEN deleteOp' = [NoDeleteOp EXCEPT !.pc = "loop",
                                                 !.todo = selectedForDeletion]
             ELSE UNCHANGED deleteOp
    /\ UNCHANGED <<disk, folderOp, selectedForDeletion, locked, keyboard, options, routing, pc,
                   queue, serverActions, references, results, emptyFolders,
                   scans>>

\* one pass of the loop of executeDelete (lines 896-907)
DeleteActionFile ==
    /\ deleteOp.pc = "loop"
    /\ deleteOp.todo # <<>>
    /\ \E att \in {DeleteAttempt(deleteOp,
                       FindAction(results.actions, Head(deleteOp.todo)),
                       fs, locked)} :
          /\ fs' = att.files
          /\ deleteOp' = att.op
    /\ UNCHANGED <<dirs, folderOp, selectedForDeletion, locked, keyboard, options, answer, routing, pc,
                   queue, serverActions, references, results, emptyFolders,
                   scans>>

\* after the loop (lines 909-945): findEmptyFolders, the errors are printed,
\* the prompt "Delete these N empty folders?", deleteEmptyFolders starts
FinishDeleteLoop ==
    /\ deleteOp.pc = "loop"
    /\ deleteOp.todo = <<>>
    /\ \E found \in {findEmptyFolders(dirs, fs)} : \E confirm \in Answers :
          /\ answer' = IF found # <<>> THEN confirm ELSE answer
          /\ IF found # <<>> /\ Confirmed(confirm)
             THEN /\ folderOp' = [pc |-> "loop", todo |-> SortByDepth(found),
                                  isEmpty |-> FALSE, deleted |-> <<>>]
                  /\ deleteOp' = [deleteOp EXCEPT !.pc = "folders",
                                                  !.reported = deleteOp.errors]
             ELSE /\ deleteOp' = [deleteOp EXCEPT !.pc = "update",
                                                  !.reported = deleteOp.errors]
                  /\ UNCHANGED folderOp
    /\ UNCHANGED <<disk, selectedForDeletion, locked, keyboard, options, routing, pc, queue,
                   serverActions, references, results, emptyFolders, scans>>

\* deleteEmptyFolders returns to executeDelete (lines 946-953)
FoldersDeleted ==
    /\ deleteOp.pc = "folders"
    /\ folderOp.pc = "loop"
    /\ folderOp.todo = <<>>
    /\ folderOp' = NoFolderOp
    /\ deleteOp' = [deleteOp EXCEPT !.pc = "update"]
    /\ UNCHANGED <<disk, selectedForDeletion, locked, keyboard, options, answer, routing, pc, queue,
                   serverActions, references, results, emptyFolders, scans>>

\* the end of executeDelete (lines 959-973): the selected Actions leave the
\* results, the summary is counted again, the selection is cleared
UpdateResults ==
    /\ deleteOp.pc = "update"
    /\ results' = DropSelected(results, selectedForDeletion)
    /\ selectedForDeletion' = <<>>
    /\ deleteOp' = NoDeleteOp
    /\ UNCHANGED <<disk, folderOp, locked, keyboard, options, answer, routing, pc, queue, serverActions,
                   references, emptyFolders, scans>>

\* scanDeadRoutes (lines 1003-1029) up to the loop of RoutesScanner.scan
\* (reporter.js lines 136-152): a new RoutesScanner reads routes.json
ScanDeadRoutes ==
    /\ pc = "done"
    /\ deleteOp.pc = "idle"
    /\ folderOp.pc = "idle"
    /\ routesScanner.pc = "none"
    /\ IF routesFilePath \in FilePaths(fs)
       THEN \E routes \in {ReadRoutes(fs)} :
               routesScanner' = [pc |-> "scan", routes |-> routes,
                                 queue |-> routes, deadRoutes |-> <<>>,
                                 scans |-> 1]
       ELSE UNCHANGED routesScanner
    /\ UNCHANGED <<disk, folderOp, selectedForDeletion, deleteOp, locked, keyboard,
                   options, answer, routeSelection, pc, queue, serverActions,
                   references, results, emptyFolders, scans>>

\* one pass of the loop of RoutesScanner.scan (reporter.js lines 153-155)
CheckRoute ==
    /\ routesScanner.pc = "scan"
    /\ routesScanner.queue # <<>>
    /\ routesScanner' =
           [routesScanner EXCEPT
               !.queue = Tail(@),
               !.deadRoutes = @ \o checkRoute(Head(routesScanner.queue), dirs, fs)]
    /\ UNCHANGED <<disk, folderOp, selectedForDeletion, deleteOp, locked, keyboard,
                   options, answer, routeSelection, pc, queue, serverActions,
                   references, results, emptyFolders, scans>>

\* RoutesScanner.scan returns (reporter.js lines 157-165); without dead
\* routes the menu closes, otherwise manageDeadRoutes shows them
FinishRoutesScan ==
    /\ routesScanner.pc = "scan"
    /\ routesScanner.queue = <<>>
    /\ routesScanner' =
           IF routesScanner.deadRoutes = <<>> THEN NoRoutesScanner
           ELSE [routesScanner EXCEPT !.pc = "manage"]
    /\ UNCHANGED <<disk, folderOp, selectedForDeletion, deleteOp, locked, keyboard,
                   options, answer, routeSelection, pc, queue, serverActions,
                   references, results, emptyFolders, scans>>

\* RoutesKeyboardNavigation.handleRightArrow (lines 262-277): mark a dead
\* route and take it off the routes ignore list
MarkRoute ==
    /\ routesScanner.pc = "manage"
    /\ \E k \in 1..Len(routesScanner.deadRoutes) :
          /\ routesScanner.deadRoutes[k].path \notin routeSelection
          /\ routeSelection' = routeSelection \cup {routesScanner.deadRoutes[k].path}
          /\ ignoredRoutes' =
                 SelectSeq(ignoredRoutes,
                           LAMBDA path : path # routesScanner.deadRoutes[k].path)
    /\ UNCHANGED <<disk, folderOp, selectedForDeletion, deleteOp, locked,
                   actionsMenu, options, answer, routesScanner, pc, queue,
                   serverActions, references, results, emptyFolders, scans>>

\* RoutesKeyboardNavigation.handleLeftArrow (lines 246-260): put a dead route
\* on the routes ignore list and take its mark off
IgnoreRoute ==
    /\ routesScanner.pc = "manage"
    /\ \E k \in 1..Len(routesScanner.deadRoutes) :
          /\ \A j \in 1..Len(ignoredRoutes) :
                 ignoredRoutes[j] # routesScanner.deadRoutes[k].path
          /\ ignoredRoutes' = Append(ignoredRoutes, routesScanner.deadRoutes[k].path)
          /\ routeSelection' = routeSelection \ {routesScanner.deadRoutes[k].path}
    /\ UNCHANGED <<disk, folderOp, selectedForDeletion, deleteOp, locked,
                   actionsMenu, options, answer, routesScanner, pc, queue,
                   serverActions, references, results, emptyFolders, scans>>

\* RoutesKeyboardNavigation.handleSpaceReset (lines 279-295): a marked or
\* ignored dead route becomes neutral
ResetRoute ==
    /\ routesScanner.pc = "manage"
    /\ \E k \in 1..Len(routesScanner.deadRoutes) :
          /\ \/ routesScanner.deadRoutes[k].path \in routeSelection
             \/ \E j \in 1..Len(ignoredRoutes) :
                    ignoredRoutes[j] = routesScanner.deadRoutes[k].path
          /\ routeSelection' = routeSelection \ {routesScanner.deadRoutes[k].path}
          /\ ignoredRoutes' =
                 SelectSeq(ignoredRoutes,
                           LAMBDA path : path # routesScanner.deadRoutes[k].path)
    /\ UNCHANGED <<disk, folderOp, selectedForDeletion, deleteOp, locked,
                   actionsMenu, options, answer, routesScanner, pc, queue,
                   serverActions, references, results, emptyFolders, scans>>

\* executeRouteDelete (lines 1059-1100) and, on success, the rescan of
\* manageDeadRoutes on the same RoutesScanner (lines 1041-1045)
ExecuteRouteDelete ==
    /\ routesScanner.pc = "manage"
    /\ routeSelection # {}
    /\ routesScanner.scans < MaxRouteScans
    /\ \E confirm \in Answers :
          /\ answer' = confirm
          /\ IF Confirmed(confirm)
             THEN /\ fs' = deleteRoutes(fs, routeSelection)
                  /\ routeSelection' = {}
                  /\ \E routes \in {ReadRoutes(deleteRoutes(fs, routeSelection))} :
                         routesScanner' = [routesScanner EXCEPT !.pc = "scan",
                                                               !.routes = routes,
                                                               !.queue = routes,
                                                               !.scans = @ + 1]
             ELSE UNCHANGED <<fs, routing>>
    /\ UNCHANGED <<dirs, folderOp, selectedForDeletion, deleteOp, locked, keyboard,
                   options, pc, queue, serverActions, references, results,
                   emptyFolders, scans>>

\* 'back' in manageDeadRoutes (lines 1037-1038)
LeaveRoutes ==
    /\ routesScanner.pc = "manage"
    /\ routesScanner' = NoRoutesScanner
    /\ routeSelection' = {}
    /\ UNCHANGED <<disk, folderOp, selectedForDeletion, deleteOp, locked, keyboard,
                   options, answer, pc, queue, serverActions, references, results,
                   emptyFolders, scans>>

\* RoutesKeyboardNavigation.buildUnifiedRouteList (lines 56-69)
buildUnifiedRouteList(deadRoutes, ignored, selected) ==
    FlatMap(deadRoutes, LAMBDA route :
        IF route.path \in selected THEN <<route>> ELSE <<>>)
    \o FlatMap(deadRoutes, LAMBDA route :
        IF (\E j \in 1..Len(ignored) : ignored[j] = route.path)
               \/ route.path \in selected
        THEN <<>> ELSE <<route>>)

\* the dead-routes menu alone: the scan of the command line, then the routes
\* scans and the keys of the menu
NextRoutes ==
    \/ CliScan
    \/ ScanDeadRoutes
    \/ CheckRoute
    \/ FinishRoutesScan
    \/ MarkRoute
    \/ IgnoreRoute
    \/ ResetRoute
    \/ ExecuteRouteDelete
    \/ LeaveRoutes

NextSession ==
    \/ CliScan
    \/ ScanDeadRoutes
    \/ CheckRoute
    \/ FinishRoutesScan
    \/ MarkRoute
    \/ ExecuteRouteDelete
    \/ LeaveRoutes
    \/ MarkForDeletion
    \/ UnmarkForDeletion
    \/ ExecuteDelete
    \/ DeleteActionFile
    \/ FinishDeleteLoop
    \/ FoldersDeleted
    \/ UpdateResults
    \/ ManageEmptyFolders
    \/ CheckFolder
    \/ RemoveFolder
    \/ FinishFolderDelete

\* the project of the session: two Actions, one of them called by the
\* other only, and a view
DropJson ==
    JsonFile("app/api/v2/drop.json",
        JObj(<< <<"steps", JArr(<<
            JObj(<< <<"options", JObj(<< <<"url", JStr("/api/v1/keep")>> >>)>> >>)
        >>)>> >>))
KeepEjs == TextFile("views/keep.ejs", "<h1>keep</h1>")


\* a route of routes.json
Route(path, fields) == JObj(<< <<"path", JStr(path)>> >> \o fields)

RoutesJson ==
    JsonFile(routesFilePath, JObj(<< <<"routes", JArr(<<
        Route("/", << <<"page", JStr("keep")>>, <<"layout", JStr("main")>> >>),
        Route("/drop", << <<"exec", JStr("/api/v2/drop")>> >>),
        Route("/old", << <<"page", JStr("old")>> >>),
        Route("/old", << <<"method", JStr("POST")>>,
                         <<"page", JStr("keep")>> >>),
        Route("/static", << <<"url", JStr("/public")>> >>) >>)>>,
        <<"layouts", JObj(<<>>)>> >>))

SessionFiles == <<KeepJson, DropJson, KeepEjs, RoutesJson>>
SessionDirs == {"app/lib", "app/lib/tmp"}
\* the files the file system may refuse to remove
Lockable == {DropJson.path}

InitSession ==
    \E lk \in SUBSET Lockable :
    \E dry \in BOOLEAN :
        /\ fs = SessionFiles
        /\ dirs = SessionDirs \cup UNION {Ancestors(SessionFiles[i].path) :
                                    i \in 1..Len(SessionFiles)}
        /\ pc = "idle"
        /\ queue = <<>>
        /\ serverActions = <<>>
        /\ references = <<>>
        /\ results = NoResults
        /\ emptyFolders = <<>>
        /\ scans = 0
        /\ SessionInit(lk, [dryRun |-> dry])

SpecSession == InitSession /\ [][NextSession]_vars

SpecRoutes == InitSession /\ [][NextRoutes]_vars

(***************************************************************************)
(* C15  In a confirmed delete batch a failure on one file does not stop    *)
(* the batch: once the loop is over every selected Action has had its      *)
(* removal attempt (its file is gone or its failure is in the error list), *)
(* the error list holds exactly the refused files, and the errors are      *)
(* reported only when no selected file is left to attempt.                 *)
(***************************************************************************)
\* the file of a selected Action
SelectedFile(urlPath) == FindAction(results.actions, urlPath).filePath

BatchOver == deleteOp.pc \in {"folders", "update"}

C15_BatchContinues ==
    /\ deleteOp.reported # <<>> => deleteOp.todo = <<>>
    /\ deleteOp.pc = "loop" => deleteOp.reported = <<>>
    /\ BatchOver =>
          /\ deleteOp.reported = deleteOp.errors
          /\ \A j \in 1..Len(selectedForDeletion) :
                Let(SelectedFile(selectedForDeletion[j]), LAMBDA file :
                    /\ file \in FilePaths(fs) =>
                           \E e \in 1..Len(deleteOp.errors) : deleteOp.errors[e] = file
                    /\ file \in locked <=>
                           \E e \in 1..Len(deleteOp.errors) : deleteOp.errors[e] = file)
          /\ deleteOp.deletedCount + Len(deleteOp.errors) = Len(selectedForDeletion)

\* the first selected file was refused and the second was deleted all the same
C15_Witness ==
    /\ BatchOver
    /\ Len(selectedForDeletion) = 2
    /\ deleteOp.reported = <<SelectedFile(selectedForDeletion[1])>>
    /\ deleteOp.deletedCount = 1
    /\ SelectedFile(selectedForDeletion[2]) \notin FilePaths(fs)

(***************************************************************************)
(* C16  The backup copy of a file completes before the file is deleted:    *)
(* executeDelete removes no selected Action file unless a copy of it lies  *)
(* under a timestamped backup directory (backups/server-actions-<time>/),  *)
(* so a file whose copy failed stays.                                      *)
(***************************************************************************)
backupRoot == "backups/server-actions-"

\* a copy of the file lies in a backup directory
HasBackup(file, files) ==
    \E i \in 1..Len(files) :
        /\ StartsWith(files[i].path, backupRoot)
        /\ EndsWith(files[i].path, "/" \o file)

\* executeDelete removes the file in this step
DeletedByBatch(file) ==
    /\ deleteOp.pc = "loop"
    /\ file \in FilePaths(fs)
    /\ file \notin FilePaths(fs')

BackupFirst ==
    \A j \in 1..Len(selectedForDeletion) :
        Let(SelectedFile(selectedForDeletion[j]), LAMBDA file :
            DeletedByBatch(file) => HasBackup(file, fs))

C16_BackupBeforeDelete == [][BackupFirst]_vars

(***************************************************************************)
(* C19  When a routes scan is over, a route of routes.json is reported     *)
(* dead exactly when its page, exec or layout names a file that does not   *)
(* exist (views/<page>.ejs, app<exec>.json, views/layouts/<layout>.ejs),   *)
(* whatever the Action index says; no route whose named files all exist,   *)
(* or that names none, is among the reported ones.                         *)
(***************************************************************************)
\* the name a route gives in a field, if any
Named(route, field) ==
    IF Member(route, field).t = "str" THEN {Member(route, field).s} ELSE {}

\* the files a route names
NamedFiles(route) ==
    {"views/" \o page \o ".ejs" : page \in Named(route, "page")}
    \cup {"app" \o exec \o ".json" : exec \in Named(route, "exec")}
    \cup {"views/layouts/" \o layout \o ".ejs" : layout \in Named(route, "layout")}

NamesMissingFile(route) == \E file \in NamedFiles(route) : file \notin FilePaths(fs)

ReportedDead(route) ==
    \E k \in 1..Len(routesScanner.deadRoutes) :
        routesScanner.deadRoutes[k].route = route

RoutesScanned ==
    \/ routesScanner.pc = "manage"
    \/ routesScanner.pc = "scan" /\ routesScanner.queue = <<>>

C19_DeadByMissingFile ==
    RoutesScanned =>
        /\ \A k \in 1..Len(routesScanner.routes) :
               ReportedDead(routesScanner.routes[k])
                   <=> NamesMissingFile(routesScanner.routes[k])
        /\ \A k \in 1..Len(routesScanner.deadRoutes) :
               NamesMissingFile(routesScanner.deadRoutes[k].route)

\* the route of an Action that left the index while its file stayed is not
\* reported, the route with the missing layout is
C19_Witness ==
    /\ RoutesScanned
    /\ \E k \in 1..Len(routesScanner.routes) :
          /\ Member(routesScanner.routes[k], "exec") = JStr("/api/v2/drop")
          /\ ~ReportedDead(routesScanner.routes[k])
    /\ \A k \in 1..Len(results.actions) : results.actions[k].urlPath # "/api/v2/drop"
    /\ \E k \in 1..Len(routesScanner.deadRoutes) :
          routesScanner.deadRoutes[k].issues = <<"missing_layout">>

(***************************************************************************)
(* C17  Started with --dry-run the tool deletes nothing: no step of the    *)
(* run removes a file, a directory or a route of routes.json.              *)
(***************************************************************************)
\* the paths of the routes in routes.json
RoutePaths(files) ==
    {Member(ReadRoutes(files)[k], "path").s : k \in 1..Len(ReadRoutes(files))}

NothingRemoved ==
    /\ FilePaths(fs) \subseteq FilePaths(fs')
    /\ dirs \subseteq dirs'
    /\ \E before \in {RoutePaths(fs)} : \E after \in {RoutePaths(fs')} :
           before \subseteq after

C17_DryRunDeletesNothing == [][options.dryRun => NothingRemoved]_vars

(***************************************************************************)
(* C18  Action files, routes and folders are deleted only after a "yes"    *)
(* to the confirmation prompt: a step that removes a file, a directory or  *)
(* a route has "yes" as the last answer, and the step in which the user    *)
(* answers "no" deletes nothing and leaves the selections, the results and *)
(* the summary as they were.                                               *)
(***************************************************************************)
Declined == answer # "no" /\ answer' = "no"

DeleteNeedsYes ==
    /\ ~NothingRemoved => answer' = "yes"
    /\ Declined => /\ NothingRemoved
                   /\ UNCHANGED <<selectedForDeletion, routeSelection, results,
                                  emptyFolders>>

Feed(files) ==
    FlatMap(<<"html", "json", "js">>, LAMBDA kind :
        Let(Glob(kind, files), LAMBDA set :
            [k \in 1..Len(set) |-> [kind |-> kind, file |-> set[k]]]))

\* the index after the files of feed were scanned in the order of feed
ScanInOrder(st, feed) ==
    LET F[k \in 0..Len(feed)] ==
            IF k = 0 THEN st
            ELSE Let(F[k - 1], LAMBDA before :
                     addReferences(before, FileCalls(feed[k].kind, feed[k].file)))
    IN  F[Len(feed)]

\* the index discovery leaves: every Action without a reference
Discovered(sa) == [i \in 1..Len(sa) |-> [sa[i] EXCEPT !.references = <<>>]]

\* the one scan bin/cli.js starts
StartOneScan == StartScan /\ scans = 0

\* discovery is over; every file of the three sets waits for the extractor
BeginFeeding ==
    /\ pc = "discover"
    /\ DiscoveryComplete
    /\ pc' = "feed"
    /\ queue' = Feed(fs)
    /\ UNCHANGED <<disk, session, serverActions, references, results, scans,
                   emptyFolders>>

\* the extractor scans any one of the waiting files
FeedAnyFile ==
    /\ pc = "feed"
    /\ \E i \in 1..Len(queue) :
          /\ \E st \in {addReferences([sa |-> serverActions, refs |-> references],
                                      FileCalls(queue[i].kind, queue[i].file))} :
                 /\ serverActions' = st.sa
                 /\ references' = st.refs
          /\ queue' = Pick(queue, (1..Len(queue)) \ {i})
    /\ UNCHANGED <<disk, session, pc, results, scans, emptyFolders>>

\* every file was scanned; analyzeResults classifies
FinishFeeding ==
    /\ pc = "feed"
    /\ queue = <<>>
    /\ pc' = "done"
    /\ results' = analyzeResults(serverActions)
    /\ emptyFolders' = findEmptyFolders(dirs, fs)
    /\ UNCHANGED <<disk, session, queue, serverActions, references, scans>>

NextAnyOrder ==
    \/ StartOneScan
    \/ DiscoverFile
    \/ BeginFeeding
    \/ FeedAnyFile
    \/ FinishFeeding

SpecAnyOrder == Init /\ [][NextAnyOrder]_vars

(***************************************************************************)
(* C20  For every order in which the files of the markup, structured-data  *)
(* and script sets are fed to the extractor, each Action ends with the     *)
(* same references, counted with multiplicity, and the same classification *)
(* as in the order of findReferences.                                      *)
(***************************************************************************)
\* what scan() returns when the files are fed in the order of findReferences
InCodeOrder ==
    analyzeResults(
        ScanInOrder([sa |-> Discovered(serverActions), refs |-> <<>>], Feed(fs)).sa)

C20_OrderIndependent == pc = "done" => SameResult(results, InCodeOrder)

\* two files that call the same Action were fed against the order of
\* findReferences: the Action's list is the list of that order reversed
C20_Witness ==
    /\ pc = "done"
    /\ \E i \in 1..Len(results.actions) :
          /\ results.actions[i].referenceCount = 2
          /\ results.actions[i].references[1] = InCodeOrder.actions[i].references[2]
          /\ results.actions[i].references[2] = InCodeOrder.actions[i].references[1]
          /\ results.actions[i].references[1] # results.actions[i].references[2]

(***************************************************************************)
(* C21  Deleting selected Actions leaves every other Action of the result  *)
(* as it was: its entry, with the reference list, referenceCount and       *)
(* confidence, is the entry it had before, also when all its references    *)
(* came from the file of a deleted Action.  Only a scan changes an entry.  *)
(***************************************************************************)
\* the entry of the result for the key
EntryOf(res, urlPath) == FindAction(res.actions, urlPath)

EntriesKept ==
    pc' = "done" /\ pc = "done" =>
        \A k \in 1..Len(results'.actions) :
            /\ \E j \in 1..Len(results.actions) :
                   results.actions[j].urlPath = results'.actions[k].urlPath
            /\ \E before \in {EntryOf(results, results'.actions[k].urlPath)} :
                   /\ results'.actions[k].references = before.references
                   /\ results'.actions[k].referenceCount = before.referenceCount
                   /\ results'.actions[k].confidence = before.confidence

C21_NoDecrement == [][EntriesKept]_vars

\* /api/v2/drop was deleted with its file; /api/v1/keep still shows the one
\* reference that file made
C21_Witness ==
    /\ deleteOp.pc = "idle"
    /\ DropJson.path \notin FilePaths(fs)
    /\ Len(results.actions) = 1
    /\ results.actions[1].urlPath = "/api/v1/keep"
    /\ results.actions[1].referenceCount = 1
    /\ results.actions[1].references[1].sourceFile = DropJson.path
    /\ results.actions[1].confidence = "review-needed"

(***************************************************************************)
(* C22  A raw string that cannot be a reference (the empty string, a pure  *)
(* fragment) is a no-op for the normalizer: no reference with such a       *)
(* string is on the list of an Action or in the reference lookup, and the  *)
(* lookup has no key made from it.                                         *)
(***************************************************************************)
CannotBeReference(raw) == raw = "" \/ StartsWith(raw, "#")

C22_InvalidIsNoOp ==
    /\ \A key \in DOMAIN references :
           /\ key # NormalizePath("")
           /\ \A i \in 1..Len(references[key]) :
                  ~CannotBeReference(references[key][i].originalReference)
    /\ \A k \in 1..Len(serverActions) :
           \A i \in 1..Len(serverActions[k].references) :
               ~CannotBeReference(serverActions[k].references[i].originalReference)

(***************************************************************************)
(* C26  After a delete batch an Action leaves results.actions, and the     *)
(* summary counts, only if its file was deleted: an Action whose file is   *)
(* still in the project stays in the result and stays counted.             *)
(***************************************************************************)
\* the keys of the Actions of the result
ResultKeys(res) == {res.actions[k].urlPath : k \in 1..Len(res.actions)}

RemovedOnlyIfDeleted ==
    pc' = "done" /\ pc = "done" =>
        /\ \A k \in 1..Len(results.actions) :
               results.actions[k].urlPath \notin ResultKeys(results')
                   => results.actions[k].filePath \notin FilePaths(fs')
        /\ results'.summary.totalActions < results.summary.totalActions
               => \E k \in 1..Len(results.actions) :
                      /\ results.actions[k].urlPath \notin ResultKeys(results')
                      /\ results.actions[k].filePath \notin FilePaths(fs')

C26_FailedRemovalStaysListed == [][RemovedOnlyIfDeleted]_vars

(***************************************************************************)
(* The queue-file specification: the same Scanner over trees that hold two *)
(* Actions, a view, a script and one structured file with an api_file      *)
(* field of any JSON type next to one string field the scan searches.      *)
(***************************************************************************)
ApiFileValues ==
    {JStr("/app/api/v1/queues/sync.json"), JNum(1), JNull, JArr(<<>>),
     JObj(<< <<"name", JStr("sync")>> >>)}
CallFields == {"exec", "module", "value", "url", "link"}

JobsJson(apiFile, field) ==
    JsonFile("app/config/jobs.json",
        JObj(<< <<"queues", JArr(<< JObj(<< <<"api_file", apiFile>> >>) >>)>>,
                <<"steps", JArr(<<
                    JObj(<< <<field, JStr("/api/v1/courses/create")>> >>) >>)>> >>))

QueueTrees ==
    UNION {{<<CreateJson, SyncJson, JobsJson(a, f), IndexEjs, AppJs>>,
            <<AppJs, IndexEjs, JobsJson(a, f), SyncJson, CreateJson>>} :
           a \in ApiFileValues, f \in CallFields}

InitQueues == \E files \in QueueTrees : InitOn(files)

SpecQueues == InitQueues /\ [][Next]_vars

(***************************************************************************)
(* C27  For every structured file that parses, every string exec and       *)
(* module field and every /api/ URL of its value, url and link fields is   *)
(* recorded as a reference, whatever the type of an api_file value in the  *)
(* same file.                                                              *)
(***************************************************************************)
\* the calls of addReference the exec, module, value, url and link walks of
\* the file ask for
FieldCalls(content, file) ==
    StringCalls(findInObject(content, "exec"), file, "exec-string")
    \o StringCalls(findInObject(content, "module"), file, "exec-module")
    \o TextCalls(findInObject(content, "value"), file)
    \o TextCalls(findInObject(content, "url"), file)
    \o TextCalls(findInObject(content, "link"), file)

IsRecorded(call) ==
    /\ NormalizePath(call.path) \in DOMAIN references
    /\ \E r \in 1..Len(references[NormalizePath(call.path)]) :
           references[NormalizePath(call.path)][r]
               = Ref(call.file, call.type, call.path)

C27_ReferencesDespiteApiFile ==
    pc \in {"js", "done"} =>
        \A i \in 1..Len(fs) :
            (IsJsonPath(fs[i].path) /\ fs[i].body.t # "bad") =>
                \E calls \in {FieldCalls(fs[i].body, fs[i].path)} :
                    \A k \in 1..Len(calls) : IsRecorded(calls[k])

(***************************************************************************)
(* C25  When a routes scan has returned, also the scan that follows a      *)
(* deletion on the same RoutesScanner, deadRoutes lists every dead route   *)
(* of routes.json exactly once and no route that is not in the file, so    *)
(* validRoutes is not negative and the menu stays open only while a dead   *)
(* route is left.                                                          *)
(***************************************************************************)
\* the positions of deadRoutes that report the route
ReportsOf(route) ==
    {k \in 1..Len(routesScanner.deadRoutes) :
        routesScanner.deadRoutes[k].route = route}

\* the routes of routes.json as the file is now
CurrentRoutes == ReadRoutes(fs)

validRoutes == Len(routesScanner.routes) - Len(routesScanner.deadRoutes)

C25_RescanListsCurrentDeadOnce ==
    RoutesScanned =>
        /\ \A k \in 1..Len(CurrentRoutes) :
               Cardinality(ReportsOf(CurrentRoutes[k]))
                   = (IF NamesMissingFile(CurrentRoutes[k]) THEN 1 ELSE 0)
        /\ \A k \in 1..Len(routesScanner.deadRoutes) :
               \E j \in 1..Len(CurrentRoutes) :
                   CurrentRoutes[j] = routesScanner.deadRoutes[k].route
        /\ validRoutes >= 0
        /\ routesScanner.pc = "manage" =>
               \E j \in 1..Len(CurrentRoutes) : NamesMissingFile(CurrentRoutes[j])

(***************************************************************************)
(* C28  deleteRoutes removes from routes.json only routes that were        *)
(* reported dead and selected: a route that was not reported dead stays,   *)
(* also one that shares its path with a selected dead route, and the       *)
(* remaining routes and the other fields of the file keep their content    *)
(* and order.                                                              *)
(***************************************************************************)
\* the parsed routes.json of the tree
RoutesConfig(files) ==
    files[CHOOSE i \in 1..Len(files) : files[i].path = routesFilePath].body

\* the routes the user selected: reported dead, with a marked path
SelectedDead(route) ==
    ReportedDead(route) /\ Member(route, "path").s \in routeSelection

OnlySelectedDeadRemoved ==
    RoutesConfig(fs') # RoutesConfig(fs) =>
        /\ ReadRoutes(fs') =
               FlatMap(ReadRoutes(fs), LAMBDA route :
                   IF SelectedDead(route) THEN <<>> ELSE <<route>>)
        /\ Len(RoutesConfig(fs').e) = Len(RoutesConfig(fs).e)
        /\ \A k \in 1..Len(RoutesConfig(fs).e) :
               /\ RoutesConfig(fs').e[k][1] = RoutesConfig(fs).e[k][1]
               /\ RoutesConfig(fs).e[k][1] # "routes"
                      => RoutesConfig(fs').e[k] = RoutesConfig(fs).e[k]

C28_OnlySelectedDeadRoutesRemoved == [][OnlySelectedDeadRemoved]_vars

(***************************************************************************)
(* The keyboard specification: after the scan of the command line the      *)
(* interactive mode starts (the IgnoreList constructor starts a load it    *)
(* does not await, start() awaits a second one), the user opens the        *)
(* Actions menu and presses keys.  A handler runs up to its first await;   *)
(* what it does after the save is the step SaveIgnoreListDone.  Loads and  *)
(* saves complete in any order.                                            *)
(***************************************************************************)
MaxInFlight == 2
MaxListeners == 2

Filters == {"all", "unused-only", "safe-only"}

\* Set.prototype.has and Set.prototype.delete on a Set kept in insertion order
Has(set, key) == \E j \in 1..Len(set) : set[j] = key
Delete(set, key) == SelectSeq(set, LAMBDA x : x # key)

\* InteractiveMode.getFilteredUnmarkedActions (lines 450-469)
getFilteredUnmarkedActions(res, ignored, selected, filter) ==
    FlatMap(res.actions, LAMBDA action :
        IF action.urlPath \in ignored \/ Has(selected, action.urlPath) THEN <<>>
        ELSE IF filter = "unused-only" /\ action.status # "unused" THEN <<>>
        ELSE IF filter = "safe-only" /\ action.confidence # "safe-to-delete"
        THEN <<>>
        ELSE <<action>>)

\* InteractiveMode.buildUnifiedActionListSimple (lines 236-247)
buildUnifiedActionListSimple(res, ignored, selected, filter) ==
    FlatMap(res.actions, LAMBDA action :
        IF Has(selected, action.urlPath) THEN <<action>> ELSE <<>>)
    \o getFilteredUnmarkedActions(res, ignored, selected, filter)

\* a load of the ignore list: who started it and the await it is at
Load(by, stage) == [by |-> by, stage |-> stage]

\* a save of the ignore list: the handler that awaits it, the key the
\* handler is about and the array the save writes (taken before the await,
\* ignore-list.js lines 28-32)
Save(op, key, data) == [op |-> op, key |-> key, data |-> data]

\* the last key pressed on each item
Pressed(lastKey, urlPath, name) ==
    [k \in DOMAIN lastKey \cup {urlPath} |->
        IF k = urlPath THEN name ELSE lastKey[k]]

\* everything the keys of the Actions menu leave alone
besidesKeys ==
    <<disk, folderOp, deleteOp, locked, options, answer, routing, pc, queue,
      serverActions, references, results, emptyFolders, scans, ignoredRoutes>>

\* bin/cli.js lines 44-45: new InteractiveMode (whose IgnoreList constructor
\* calls loadIgnoreList without await) and start() up to its await of a
\* second loadIgnoreList; each load is at its await of fs.pathExists
StartInteractive ==
    /\ pc = "done"
    /\ nav.pc = "new"
    /\ nav' = [nav EXCEPT !.pc = "loading"]
    /\ inFlight' = [inFlight EXCEPT !.loads = {Load("constructor", "pathExists"),
                                               Load("start", "pathExists")}]
    /\ UNCHANGED <<besidesKeys, selectedForDeletion, ignoreList, ignoreFile, stdin>>

\* fs.pathExists of a load answers (ignore-list.js line 16)
LoadPathExists ==
    /\ \E load \in inFlight.loads :
          /\ load.stage = "pathExists"
          /\ inFlight' = [inFlight EXCEPT !.loads =
                 (@ \ {load}) \cup (IF ignoreFile.exists
                                    THEN {Load(load.by, "readJson")} ELSE {})]
    /\ UNCHANGED <<besidesKeys, selectedForDeletion, ignoreList, ignoreFile,
                   stdin, nav>>

\* fs.readJson of a load answers and the load replaces the Set in memory
\* (lines 17-18)
LoadReadJson ==
    /\ \E load \in inFlight.loads :
          /\ load.stage = "readJson"
          /\ inFlight' = [inFlight EXCEPT !.loads = @ \ {load}]
    /\ ignoreList' = ignoreFile.ignored
    /\ UNCHANGED <<besidesKeys, selectedForDeletion, ignoreFile, stdin, nav>>

\* the load start() awaits is over: the main menu is shown (lines 25-30)
ShowMainMenu ==
    /\ nav.pc = "loading"
    /\ \A load \in inFlight.loads : load.by # "start"
    /\ nav' = [nav EXCEPT !.pc = "menu"]
    /\ UNCHANGED <<besidesKeys, selectedForDeletion, ignoreList, ignoreFile,
                   inFlight, stdin>>

\* the index start() goes on with (lines 1190-1195), counted from 1
ValidIndex(index, length) ==
    IF index > length THEN length ELSE IF index < 1 THEN 1 ELSE index

\* KeyboardNavigation.start (lines 1171-1206) up to its await: the listener
\* is registered, raw mode switched on, the list built; on an empty list
\* start returns 'back' at once
KeyboardNavigationStart ==
    /\ nav.pc = "menu"
    /\ stdin.listeners < MaxListeners
    /\ stdin' = [listeners |-> stdin.listeners + 1, rawMode |-> TRUE]
    /\ \E actions \in {buildUnifiedActionListSimple(
                           results, ignoreList, selectedForDeletion,
                           nav.currentFilter)} :
          nav' = IF actions = <<>>
                 THEN [nav EXCEPT !.actions = actions]
                 ELSE [nav EXCEPT !.pc = "open",
                                  !.actions = actions,
                                  !.currentIndex = ValidIndex(@, Len(actions))]
    /\ UNCHANGED <<besidesKeys, selectedForDeletion, ignoreList, ignoreFile,
                   inFlight>>

\* KeyboardNavigation.cleanup (lines 1434-1440)
cleanup(in) == [in EXCEPT !.listeners = 0, !.rawMode = FALSE]

\* handleKeypress, case 'up' (lines 1314-1317)
PressUp ==
    /\ nav.pc = "open"
    /\ nav' = [nav EXCEPT !.currentIndex = IF @ > 1 THEN @ - 1 ELSE 1]
    /\ UNCHANGED <<besidesKeys, selectedForDeletion, ignoreList, ignoreFile,
                   inFlight, stdin>>

\* handleKeypress, case 'down' (lines 1319-1322)
PressDown ==
    /\ nav.pc = "open"
    /\ nav' = [nav EXCEPT !.currentIndex =
                  IF @ < Len(nav.actions) THEN @ + 1 ELSE Len(nav.actions)]
    /\ UNCHANGED <<besidesKeys, selectedForDeletion, ignoreList, ignoreFile,
                   inFlight, stdin>>

\* KeyboardNavigation.handleLeftArrow (lines 1383-1397) up to its await of
\* addToIgnore, which has put the key into the Set and started the save
PressLeft ==
    /\ nav.pc = "open"
    /\ Cardinality(inFlight.saves) < MaxInFlight
    /\ \E urlPath \in {nav.actions[nav.currentIndex].urlPath} :
          /\ nav' = [nav EXCEPT !.lastKey = Pressed(@, urlPath, "left")]
          /\ IF urlPath \notin ignoreList
             THEN /\ ignoreList' = ignoreList \cup {urlPath}
                  /\ inFlight' = [inFlight EXCEPT !.saves = @ \cup
                         {Save("left", urlPath, ignoreList \cup {urlPath})}]
             ELSE UNCHANGED <<ignoreList, inFlight>>
    /\ UNCHANGED <<besidesKeys, selectedForDeletion, ignoreFile, stdin>>

\* KeyboardNavigation.handleRightArrow (lines 1399-1413) up to its await of
\* removeFromIgnore
PressRight ==
    /\ nav.pc = "open"
    /\ Cardinality(inFlight.saves) < MaxInFlight
    /\ \E urlPath \in {nav.actions[nav.currentIndex].urlPath} :
          /\ nav' = [nav EXCEPT !.lastKey = Pressed(@, urlPath, "right")]
          /\ IF ~Has(selectedForDeletion, urlPath)
             THEN /\ selectedForDeletion' = Append(selectedForDeletion, urlPath)
                  /\ ignoreList' = ignoreList \ {urlPath}
                  /\ inFlight' = [inFlight EXCEPT !.saves = @ \cup
                         {Save("right", urlPath, ignoreList \ {urlPath})}]
             ELSE UNCHANGED <<selectedForDeletion, ignoreList, inFlight>>
    /\ UNCHANGED <<besidesKeys, ignoreFile, stdin>>

\* KeyboardNavigation.handleSpaceReset (lines 1415-1432) up to its await of
\* removeFromIgnore
PressSpace ==
    /\ nav.pc = "open"
    /\ Cardinality(inFlight.saves) < MaxInFlight
    /\ \E urlPath \in {nav.actions[nav.currentIndex].urlPath} :
          /\ nav' = [nav EXCEPT !.lastKey = Pressed(@, urlPath, "space")]
          /\ IF Has(selectedForDeletion, urlPath) \/ urlPath \in ignoreList
             THEN /\ selectedForDeletion' = Delete(selectedForDeletion, urlPath)
                  /\ ignoreList' = ignoreList \ {urlPath}
                  /\ inFlight' = [inFlight EXCEPT !.saves = @ \cup
                         {Save("space", urlPath, ignoreList \ {urlPath})}]
             ELSE UNCHANGED <<selectedForDeletion, ignoreList, inFlight>>
    /\ UNCHANGED <<besidesKeys, ignoreFile, stdin>>

\* fs.writeJson of a save is done (ignore-list.js line 33) and the handler
\* that awaited it goes on: handleLeftArrow takes the mark off the key
\* (line 1389), the other handlers change nothing more
SaveIgnoreListDone ==
    /\ \E save \in inFlight.saves :
          /\ inFlight' = [inFlight EXCEPT !.saves = @ \ {save}]
          /\ ignoreFile' = IgnoreFile(save.data)
          /\ selectedForDeletion' =
                 IF save.op = "left" THEN Delete(selectedForDeletion, save.key)
                 ELSE selectedForDeletion
    /\ UNCHANGED <<besidesKeys, ignoreList, stdin, nav>>

\* handleKeypress, case 'q' (lines 1371-1373): start() returns 'back' after
\* cleanup (lines 1200-1203)
PressQ ==
    /\ nav.pc = "open"
    /\ stdin' = cleanup(stdin)
    /\ nav' = [nav EXCEPT !.pc = "menu"]
    /\ UNCHANGED <<besidesKeys, selectedForDeletion, ignoreList, ignoreFile,
                   inFlight>>

\* handleKeypress, case 'f' (lines 1363-1365): start() returns 'filter' after
\* cleanup and manageActions asks for the filter (lines 644-659)
PressF ==
    /\ nav.pc = "open"
    /\ stdin' = cleanup(stdin)
    /\ \E filter \in Filters :
          nav' = [nav EXCEPT !.pc = "menu", !.currentFilter = filter]
    /\ UNCHANGED <<besidesKeys, selectedForDeletion, ignoreList, ignoreFile,
                   inFlight>>

NextKeys ==
    \/ CliScan
    \/ StartInteractive
    \/ LoadPathExists
    \/ LoadReadJson
    \/ ShowMainMenu
    \/ KeyboardNavigationStart
    \/ PressUp
    \/ PressDown
    \/ PressLeft
    \/ PressRight
    \/ PressSpace
    \/ SaveIgnoreListDone
    \/ PressQ
    \/ PressF

\* the ignore-list.json earlier runs of the tool may have left
IgnoreFiles == {NoIgnoreFile, IgnoreFile({}), IgnoreFile({"/api/v2/drop"})}

\* the project of the keyboard specification: /api/v2/drop is safe to
\* delete, /api/v1/keep is referenced
KeysFiles == <<KeepJson, DropJson, KeepEjs>>

InitKeys ==
    \E file \in IgnoreFiles :
        /\ fs = KeysFiles
        /\ dirs = UNION {Ancestors(KeysFiles[i].path) : i \in 1..Len(KeysFiles)}
        /\ pc = "idle"
        /\ queue = <<>>
        /\ serverActions = <<>>
        /\ references = <<>>
        /\ results = NoResults
        /\ emptyFolders = <<>>
        /\ scans = 0
        /\ SessionInitOn({}, NoOptions, file)

SpecKeys == InitKeys /\ [][NextKeys]_vars

(***************************************************************************)
(* C23  At most one ignore/mark/reset mutation is in flight at a time: a   *)
(* handler that awaits the save of the ignore list is over before the      *)
(* handler of the next key changes anything, so once the handlers are over *)
(* every item is in the state the last key pressed on it asked for.        *)
(***************************************************************************)
\* the state of an item
StateOf(urlPath) ==
    [ignored |-> urlPath \in ignoreList,
     marked |-> Has(selectedForDeletion, urlPath)]

\* the state a key asks for
Requested(name) ==
    [ignored |-> name = "left", marked |-> name = "right"]

\* no handler is between its first step and its last
HandlersOver == inFlight.saves = {}

C23_OneMutationInFlight ==
    /\ Cardinality(inFlight.saves) <= 1
    /\ (HandlersOver /\ inFlight.loads = {}) =>
           \A urlPath \in DOMAIN nav.lastKey :
               StateOf(urlPath) = Requested(nav.lastKey[urlPath])

(***************************************************************************)
(* C29  Whenever KeyboardNavigation.start() has returned, also when the    *)
(* list to show was empty, the keypress listener it registered is removed  *)
(* and raw mode is off; so there is never more than one listener.          *)
(***************************************************************************)
\* no start() is running: the main menu, or manageActions between two calls
StartReturned == nav.pc = "menu"

C29_ListenerRemovedOnReturn ==
    /\ StartReturned => stdin = NoStdin
    /\ stdin.listeners <= 1

(***************************************************************************)
(* C30  The load the IgnoreList constructor starts without await never     *)
(* overwrites what the user changed: a key leaves the ignore Set in memory *)
(* only by removeFromIgnore of that key (right arrow or space on it), and  *)
(* when no load and no save is pending the array `ignored` on disk holds   *)
(* the keys of the Set.                                                    *)
(***************************************************************************)
\* the step starts a handler that calls removeFromIgnore(urlPath)
RemovesFromIgnore(urlPath) ==
    \E save \in inFlight'.saves \ inFlight.saves :
        save.key = urlPath /\ save.op \in {"right", "space"}

IgnoredUntilRemoved ==
    \A urlPath \in ignoreList \ ignoreList' : RemovesFromIgnore(urlPath)

\* what the Set was last saved as is what is on disk
PersistedIsInMemory ==
    (inFlight' = NothingInFlight /\ nav'.lastKey # <<>>)
        => ignoreFile'.ignored = ignoreList'

C30_LoadNeverOverwrites == [][IgnoredUntilRemoved /\ PersistedIsInMemory]_vars

(***************************************************************************)
(* C24  After any sequence of ignore, mark and reset operations no key is  *)
(* both ignored and marked for deletion, and the list built for the        *)
(* default view, of Actions or of dead routes, holds no ignored key and no *)
(* entry twice.                                                            *)
(***************************************************************************)
NoEntryTwice(list) ==
    \A i, j \in 1..Len(list) : list[i] = list[j] => i = j

ActionListSound ==
    /\ \A urlPath \in ignoreList : ~Has(selectedForDeletion, urlPath)
    /\ \E list \in {buildUnifiedActionListSimple(
                        results, ignoreList, selectedForDeletion,
                        nav.currentFilter)} :
           /\ \A k \in 1..Len(list) : list[k].urlPath \notin ignoreList
           /\ NoEntryTwice(list)

RouteListSound ==
    /\ \A j \in 1..Len(ignoredRoutes) : ignoredRoutes[j] \notin routeSelection
    /\ \E list \in {buildUnifiedRouteList(
                        routesScanner.deadRoutes, ignoredRoutes, routeSelection)} :
           /\ \A k \in 1..Len(list) : ~Has(ignoredRoutes, list[k].path)
           /\ NoEntryTwice(list)

C24_IgnoredNeverListed ==
    /\ pc = "done" => ActionListSound
    /\ routesScanner.pc = "manage" => RouteListSound

====
